---- MODULE Spec2Model ----
(***************************************************************************)
(* A model of ralph-py-cli: the iteration executor (run_agent_iteration),  *)
(* the bounded loop controller (run / run_loop) with its interactive       *)
(* decision sub-loop (get_user_decision / prompt_edit_menu), and the       *)
(* endless loop controller (run_endlessly / run_endless_loop).             *)
(***************************************************************************)
EXTENDS Integers, Sequences, FiniteSets, TLC

(***************************************************************************)
(* Bounds of the model.                                                    *)
(***************************************************************************)
\* largest total_iterations of a bounded run (--iterations, or after an edit)
MaxTotal == 3
\* largest number of iterations an endless run is followed for
MaxEndless == 4
\* largest max_consecutive_errors handed to run_endless_loop
MaxThreshold == 3

(***************************************************************************)
(* Values.                                                                 *)
(***************************************************************************)
\* Python's None where a string is expected (model, error_message, plan)
None == "None"
\* AgentRunResult.return_code when the field keeps its default None
NoReturnCode == -1
\* AgentRunResult.token_usage / parse result when no usage was found
NoTokenUsage == [none |-> TRUE]

\* RunStatus
IMPROVED == "improved"
COMPLETED == "completed"
TIMEOUT == "timeout"
PROCESS_ERROR == "process_error"
MISSING_MARKER == "missing_marker"
RunStatus == {IMPROVED, COMPLETED, TIMEOUT, PROCESS_ERROR, MISSING_MARKER}

\* TokenUsage(input_tokens, output_tokens, cache_read_tokens, cache_creation_tokens)
TokenUsage(i, o, cr, cc) ==
    [input_tokens |-> i, output_tokens |-> o,
     cache_read_tokens |-> cr, cache_creation_tokens |-> cc]

\* TokenUsage.total_tokens
UsageTotalTokens(u) == u.input_tokens + u.output_tokens

\* a fresh TokenUsageTracker()
NewTracker ==
    [total_input_tokens |-> 0, total_output_tokens |-> 0,
     total_cache_read_tokens |-> 0, total_cache_creation_tokens |-> 0,
     iteration_count |-> 0, usages |-> << >>]

\* add_usage counting the cache reads as input tokens
add_usage_CacheCountsAsInput(t, u) ==
    [total_input_tokens |->
         t.total_input_tokens + u.input_tokens + u.cache_read_tokens,
     total_output_tokens |-> t.total_output_tokens + u.output_tokens,
     total_cache_read_tokens |-> t.total_cache_read_tokens + u.cache_read_tokens,
     total_cache_creation_tokens |->
         t.total_cache_creation_tokens + u.cache_creation_tokens,
     iteration_count |-> t.iteration_count + 1,
     usages |-> Append(t.usages, u)]

\* TokenUsageTracker.add_usage
add_usage(t, u) ==
    [total_input_tokens |-> t.total_input_tokens + u.input_tokens,
     total_output_tokens |-> t.total_output_tokens + u.output_tokens,
     total_cache_read_tokens |-> t.total_cache_read_tokens + u.cache_read_tokens,
     total_cache_creation_tokens |->
         t.total_cache_creation_tokens + u.cache_creation_tokens,
     iteration_count |-> t.iteration_count + 1,
     usages |-> Append(t.usages, u)]

\* TokenUsageTracker.total_tokens
TrackerTotalTokens(t) == t.total_input_tokens + t.total_output_tokens

\* the agent tags of the adapter registry (get_agent)
AgentTypes == {"claude", "opencode"}

(***************************************************************************)
(* run_agent_iteration.  Everything the call observes of its environment   *)
(* is one record env:                                                      *)
(*   folder  what Path.exists()/is_dir() find: "missing", "file", "dir",   *)
(*           or "oserror" when stat() fails with an errno pathlib does not *)
(*           swallow (EACCES, ENAMETOOLONG, ...)                           *)
(*   spawn   what subprocess.run does: "exit" (child ran and exited),      *)
(*           "timeout" (TimeoutExpired), "notfound" (FileNotFoundError),   *)
(*           "valueerror" (ValueError, e.g. NUL byte in an argument),      *)
(*           "oserror" (any other Exception), "interrupt"                  *)
(*           (KeyboardInterrupt while waiting for the child)               *)
(*   returncode, stderr   of the exited child                              *)
(*   parse   what agent.parse_output makes of stdout: "raise" (an          *)
(*           exception inside the adapter) or (marker_type, token_usage)   *)
(***************************************************************************)
AgentRunResult(status, output_message, summary, raw_output, return_code, error_message, token_usage) ==
    [status |-> status, output_message |-> output_message,
     summary |-> summary, raw_output |-> raw_output,
     return_code |-> return_code, error_message |-> error_message,
     token_usage |-> token_usage]

\* the call returned result r; spawned tells whether subprocess.run was reached
Returned(r, spawned) ==
    [kind |-> "return", result |-> r, exc |-> None, spawned |-> spawned,
     child |-> "none"]

\* the call was left by exception exc
Raised(exc, spawned) ==
    [kind |-> "raise",
     result |-> AgentRunResult(None, "", "", "", NoReturnCode, None, NoTokenUsage),
     exc |-> exc, spawned |-> spawned, child |-> "none"]

\* What subprocess.run(cmd, timeout=...) leaves of the child when the call is
\* over: "none" when Popen created no process, "reaped" when the child was
\* waited for.  On TimeoutExpired run() kills the child and waits for it
\* before re-raising; on any other exception it kills it and Popen.__exit__
\* waits.  "running" is the outcome run() never leaves.
ChildStates == {"none", "reaped", "running"}

subprocess_run_child(spawn) ==
    CASE spawn = "exit" -> "reaped"
      [] spawn = "timeout" -> "reaped"
      [] spawn = "interrupt" -> "reaped"
      [] OTHER -> "none"

\* HandleException handing back the output captured before the timeout
HandleException_SalvagesOutput(exc, agent_type, spawned) ==
    CASE exc = "TimeoutExpired" ->
            Returned(AgentRunResult(TIMEOUT, "", "Process timed out", "partial",
                        NoReturnCode, "Process timed out after T seconds",
                        NoTokenUsage), spawned)
      [] exc = "FileNotFoundError" ->
            Returned(AgentRunResult(PROCESS_ERROR, "", "", "", NoReturnCode,
                        "CLI not found. Make sure '" \o agent_type
                            \o "' is installed and in PATH.",
                        NoTokenUsage), spawned)
      [] exc = "ValueError:UnknownAgent" ->
            Returned(AgentRunResult(PROCESS_ERROR, "", "", "", NoReturnCode,
                        "Unknown agent type: " \o agent_type
                            \o ". Available: ['claude', 'opencode']",
                        NoTokenUsage), spawned)
      [] exc = "ValueError" ->
            Returned(AgentRunResult(PROCESS_ERROR, "", "", "", NoReturnCode,
                        "embedded null byte", NoTokenUsage), spawned)
      [] exc = "Exception" ->
            Returned(AgentRunResult(PROCESS_ERROR, "", "", "", NoReturnCode,
                        "Unexpected error: e", NoTokenUsage), spawned)
      \* KeyboardInterrupt is a BaseException: no clause matches it
      [] OTHER -> Raised(exc, spawned)

\* except-clauses of run_agent_iteration: what the try block's exception becomes
HandleException(exc, agent_type, spawned) ==
    CASE exc = "TimeoutExpired" ->
            Returned(AgentRunResult(TIMEOUT, "", "Process timed out", "",
                        NoReturnCode, "Process timed out after T seconds",
                        NoTokenUsage), spawned)
      [] exc = "FileNotFoundError" ->
            Returned(AgentRunResult(PROCESS_ERROR, "", "", "", NoReturnCode,
                        "CLI not found. Make sure '" \o agent_type
                            \o "' is installed and in PATH.",
                        NoTokenUsage), spawned)
      [] exc = "ValueError:UnknownAgent" ->
            Returned(AgentRunResult(PROCESS_ERROR, "", "", "", NoReturnCode,
                        "Unknown agent type: " \o agent_type
                            \o ". Available: ['claude', 'opencode']",
                        NoTokenUsage), spawned)
      [] exc = "ValueError" ->
            Returned(AgentRunResult(PROCESS_ERROR, "", "", "", NoReturnCode,
                        "embedded null byte", NoTokenUsage), spawned)
      [] exc = "Exception" ->
            Returned(AgentRunResult(PROCESS_ERROR, "", "", "", NoReturnCode,
                        "Unexpected error: e", NoTokenUsage), spawned)
      \* KeyboardInterrupt is a BaseException: no clause matches it
      [] OTHER -> Raised(exc, spawned)

\* AfterExit looking for a marker before looking at the exit code
AfterExit_ParseFirst(env) ==
    IF env.parse.marker_type # None
    THEN Returned(AgentRunResult(
                    IF env.parse.marker_type = "completed" THEN COMPLETED
                    ELSE IMPROVED,
                    env.parse.output_message, env.parse.summary, env.stdout,
                    env.returncode, None, env.parse.token_usage), TRUE)
    ELSE IF env.returncode # 0
    THEN Returned(AgentRunResult(PROCESS_ERROR, "", "", env.stdout,
                    env.returncode,
                    IF env.stderr # "" THEN env.stderr
                    ELSE "Process exited with code " \o ToString(env.returncode),
                    NoTokenUsage), TRUE)
    ELSE Returned(AgentRunResult(MISSING_MARKER, "", env.parse.summary,
                    env.stdout, env.returncode,
                    "No <Improved> or <Completed> marker found. Agent output: "
                        \o (IF env.parse.summary # "" THEN env.parse.summary
                            ELSE "(no output)"),
                    env.parse.token_usage), TRUE)

\* AfterExit putting the fallback summary into output_message
AfterExit_MissingKeepsSummary(env) ==
    IF env.returncode # 0
    THEN Returned(AgentRunResult(PROCESS_ERROR, "", "", env.stdout,
                    env.returncode,
                    IF env.stderr # "" THEN env.stderr
                    ELSE "Process exited with code " \o ToString(env.returncode),
                    NoTokenUsage), TRUE)
    ELSE IF env.parse.marker_type = None
    THEN Returned(AgentRunResult(MISSING_MARKER, env.parse.summary, env.parse.summary,
                    env.stdout, env.returncode,
                    "No <Improved> or <Completed> marker found. Agent output: "
                        \o (IF env.parse.summary # "" THEN env.parse.summary
                            ELSE "(no output)"),
                    env.parse.token_usage), TRUE)
    ELSE Returned(AgentRunResult(
                    IF env.parse.marker_type = "completed" THEN COMPLETED
                    ELSE IMPROVED,
                    env.parse.output_message, env.parse.summary, env.stdout,
                    env.returncode, None, env.parse.token_usage), TRUE)

\* the body of the try block after subprocess.run returned normally
AfterExit(env) ==
    IF env.returncode # 0
    THEN Returned(AgentRunResult(PROCESS_ERROR, "", "", env.stdout,
                    env.returncode,
                    IF env.stderr # "" THEN env.stderr
                    ELSE "Process exited with code " \o ToString(env.returncode),
                    NoTokenUsage), TRUE)
    ELSE IF env.parse.marker_type = None
    THEN Returned(AgentRunResult(MISSING_MARKER, "", env.parse.summary,
                    env.stdout, env.returncode,
                    "No <Improved> or <Completed> marker found. Agent output: "
                        \o (IF env.parse.summary # "" THEN env.parse.summary
                            ELSE "(no output)"),
                    env.parse.token_usage), TRUE)
    ELSE Returned(AgentRunResult(
                    IF env.parse.marker_type = "completed" THEN COMPLETED
                    ELSE IMPROVED,
                    env.parse.output_message, env.parse.summary, env.stdout,
                    env.returncode, None, env.parse.token_usage), TRUE)

\* the try block of run_agent_iteration
TryBlock(agent_type, env) ==
    IF agent_type \notin AgentTypes
    THEN HandleException("ValueError:UnknownAgent", agent_type, FALSE)
    ELSE IF env.spawn = "timeout"
    THEN HandleException("TimeoutExpired", agent_type, TRUE)
    ELSE IF env.spawn = "notfound"
    THEN HandleException("FileNotFoundError", agent_type, TRUE)
    ELSE IF env.spawn = "valueerror"
    THEN HandleException("ValueError", agent_type, TRUE)
    ELSE IF env.spawn = "oserror"
    THEN HandleException("Exception", agent_type, TRUE)
    ELSE IF env.spawn = "interrupt"
    THEN HandleException("KeyboardInterrupt", agent_type, TRUE)
    ELSE IF env.returncode = 0 /\ env.parse.raises
    THEN HandleException("Exception", agent_type, TRUE)
    ELSE AfterExit(env)

\* run_agent_iteration without the is_dir() check
run_agent_iteration_NoDirCheck(agent_type, env) ==
    IF env.folder = "oserror"
    THEN Raised("OSError", FALSE)
    ELSE IF env.folder = "missing"
    THEN Returned(AgentRunResult(PROCESS_ERROR, "", "", "", NoReturnCode,
                    "Folder does not exist: F", NoTokenUsage), FALSE)
    ELSE LET o == TryBlock(agent_type, env)
         IN  [o EXCEPT !.child = IF o.spawned
                                 THEN subprocess_run_child(env.spawn)
                                 ELSE "none"]

\* run_agent_iteration(agent_type, plan_text, folder_path, timeout, model)
run_agent_iteration(agent_type, env) ==
    IF env.folder = "oserror"
    THEN Raised("OSError", FALSE)
    ELSE IF env.folder = "missing"
    THEN Returned(AgentRunResult(PROCESS_ERROR, "", "", "", NoReturnCode,
                    "Folder does not exist: F", NoTokenUsage), FALSE)
    ELSE IF env.folder = "file"
    THEN Returned(AgentRunResult(PROCESS_ERROR, "", "", "", NoReturnCode,
                    "Path is not a directory: F", NoTokenUsage), FALSE)
    ELSE LET o == TryBlock(agent_type, env)
         IN  [o EXCEPT !.child = IF o.spawned
                                 THEN subprocess_run_child(env.spawn)
                                 ELSE "none"]

(***************************************************************************)
(* The environments one invocation can meet.                               *)
(***************************************************************************)
\* token usage records an adapter can extract
Usages == {TokenUsage(3, 2, 1, 0)}

\* what parse_output can make of a zero-exit transcript
ParseResult(raises, marker_type, output_message, summary, token_usage) ==
    [raises |-> raises, marker_type |-> marker_type,
     output_message |-> output_message, summary |-> summary,
     token_usage |-> token_usage]

ParseOutcomes ==
    {ParseResult(TRUE, None, "", "", NoTokenUsage)}
    \cup {ParseResult(FALSE, None, "", s, u) :
            s \in {"No output captured", "last lines"},
            u \in Usages \cup {NoTokenUsage}}
    \cup {ParseResult(FALSE, m, t, t, u) :
            m \in {"completed", "improved"}, t \in {"", "did X"},
            u \in Usages \cup {NoTokenUsage}}

Env(folder, spawn, returncode, stderr, stdout, parse) ==
    [folder |-> folder, spawn |-> spawn, returncode |-> returncode,
     stderr |-> stderr, stdout |-> stdout, parse |-> parse]

NoParse == ParseResult(FALSE, None, "", "No output captured", NoTokenUsage)

Envs ==
    {Env(f, "exit", 0, "", "", NoParse) : f \in {"missing", "file", "oserror"}}
    \cup {Env("dir", s, 0, "", "", NoParse) :
            s \in {"timeout", "notfound", "valueerror", "oserror", "interrupt"}}
    \cup {Env("dir", "exit", rc, e, o, p) :
            rc \in {1, 2}, e \in {"", "boom"},
            o \in {"", "<Completed>x</Completed>"},
            p \in {NoParse, ParseResult(FALSE, "completed", "x", "x", NoTokenUsage)}}
    \cup {Env("dir", "exit", 0, "", "raw", p) : p \in ParseOutcomes}

\* the environments the loops draw from: one for every path through
\* run_agent_iteration and every (marker, usage) pair
LoopEnvs ==
    {Env(f, "exit", 0, "", "", NoParse) : f \in {"missing", "oserror"}}
    \cup {Env("dir", s, 0, "", "", NoParse) :
            s \in {"timeout", "notfound", "oserror", "interrupt"}}
    \cup {Env("dir", "exit", 1, e, "", NoParse) : e \in {"", "boom"}}
    \cup {Env("dir", "exit", 0, "", "raw", ParseResult(TRUE, None, "", "", NoTokenUsage))}
    \cup {Env("dir", "exit", 0, "", "raw", ParseResult(FALSE, None, "", "last lines", u)) :
            u \in Usages \cup {NoTokenUsage}}
    \cup {Env("dir", "exit", 0, "", "raw", ParseResult(FALSE, m, "did X", "did X", u)) :
            m \in {"completed", "improved"}, u \in Usages \cup {NoTokenUsage}}

(***************************************************************************)
(* State.                                                                  *)
(***************************************************************************)
VARIABLES
    pc,                     \* where the program is
    state,                  \* the LoopState
    model,                  \* the model override handed to the loop
    can_prompt,             \* run_loop's can_prompt
    original,               \* prompt_edit_menu's original_* locals
    consecutive_errors,     \* run_endless_loop's counter
    max_iterations,         \* run_endless_loop's cap: << >> is None, <<m>> is m
    max_consecutive_errors, \* run_endless_loop's threshold
    via_cli,                \* the loop was entered by its command (run, run_endlessly)
    call,                   \* the arguments of the call or command under way
    outcome,                \* how the last run_agent_iteration call ended
    ret,                    \* what the loop returned
    exit_code,              \* the code of typer.Exit
    ending,                 \* the return site the run ended at
    trace                   \* the invocations and prompts so far, oldest first

vars == <<pc, state, model, can_prompt, original, consecutive_errors,
          max_iterations, max_consecutive_errors, via_cli, call, outcome,
          ret, exit_code, ending, trace>>

\* no typer.Exit raised (yet)
NoExit == -1

LoopState(plan_text, total_iterations, agent_type) ==
    [plan_text |-> plan_text, total_iterations |-> total_iterations,
     agent_type |-> agent_type, current_iteration |-> 0,
     skip_prompts |-> FALSE, cancelled |-> FALSE, token_tracker |-> NewTracker]

NoReturn == [iterations_run |-> 0, status |-> None, message |-> None]

NoOutcome == Raised(None, FALSE)

NoCall == [agent_type |-> None, env |-> Env("dir", "exit", 0, "", "", NoParse)]

\* the values every specification starts from, before any command runs
Blank ==
    /\ state = LoopState(None, 0, None)
    /\ model = None
    /\ can_prompt = FALSE
    /\ original = [plan_text |-> None, total_iterations |-> 0, agent_type |-> None]
    /\ consecutive_errors = 0
    /\ max_iterations = << >>
    /\ max_consecutive_errors = 0
    /\ via_cli = FALSE
    /\ outcome = NoOutcome
    /\ ret = NoReturn
    /\ exit_code = NoExit
    /\ ending = ""
    /\ trace = << >>

(***************************************************************************)
(* Text.  A string is a sequence of tokens; a token [c, n] is the first n  *)
(* characters of the piece c, so that a string has a length in characters  *)
(* and slicing can cut a piece.  The marker tags are pieces of their own.  *)
(***************************************************************************)
Tok(c, n) == [c |-> c, n |-> n]

X == Tok("x", 1)
SP == Tok(" ", 1)
NL == Tok("\n", 1)
\* a word of 300 letters
W == Tok("w", 300)
OpenCompleted == Tok("<Completed>", 11)
CloseCompleted == Tok("</Completed>", 12)
OpenImproved == Tok("<Improved>", 10)
CloseImproved == Tok("</Improved>", 11)

\* len(s)
RECURSIVE TextLen(_)
TextLen(s) == IF s = << >> THEN 0 ELSE Head(s).n + TextLen(Tail(s))

\* str.isspace of a one-piece string
IsSpace(t) == t.c \in {" ", "\n"}

RECURSIVE LStrip(_)
LStrip(s) == IF s # << >> /\ IsSpace(Head(s)) THEN LStrip(Tail(s)) ELSE s

RECURSIVE RStrip(_)
RStrip(s) ==
    IF s # << >> /\ IsSpace(s[Len(s)]) THEN RStrip(SubSeq(s, 1, Len(s) - 1))
    ELSE s

\* s.strip()
Strip(s) == RStrip(LStrip(s))

\* s.split(sep)
RECURSIVE Split(_, _)
Split(s, sep) ==
    IF \E i \in 1..Len(s) : s[i] = sep
    THEN LET i == CHOOSE i \in 1..Len(s) :
                    s[i] = sep /\ \A k \in 1..(i - 1) : s[k] # sep
         IN  <<SubSeq(s, 1, i - 1)>> \o Split(SubSeq(s, i + 1, Len(s)), sep)
    ELSE <<s>>

\* sep.join(parts)
RECURSIVE Join(_, _)
Join(parts, sep) ==
    IF parts = << >> THEN << >>
    ELSE IF Len(parts) = 1 THEN parts[1]
    ELSE parts[1] \o <<sep>> \o Join(Tail(parts), sep)

\* s[:k]
RECURSIVE Truncate(_, _)
Truncate(s, k) ==
    IF s = << >> \/ k = 0 THEN << >>
    ELSE IF Head(s).n <= k
    THEN <<Head(s)>> \o Truncate(Tail(s), k - Head(s).n)
    ELSE <<Tok(Head(s).c, k)>>

\* s.startswith(piece)
StartsWith(s, piece) == s # << >> /\ Head(s) = piece

\* re.search(open + "(.*?)" + close, text, re.DOTALL): << >> when nothing
\* matches, else <<group(1)>> of the match.  The scan takes the leftmost
\* position a match can start at, and the lazy (.*?) ends the match at the
\* nearest closing tag.
re_search(text, open, close) ==
    LET starts == {i \in 1..Len(text) :
                    /\ text[i] = open
                    /\ \E j \in (i + 1)..Len(text) : text[j] = close}
    IN  IF starts = {} THEN << >>
        ELSE LET start == CHOOSE i \in starts : \A k \in starts : i <= k
                 ends == {j \in (start + 1)..Len(text) : text[j] = close}
                 end == CHOOSE j \in ends : \A k \in ends : j <= k
             IN  <<SubSeq(text, start + 1, end - 1)>>

SummaryLines == 3
SummaryLimit == 500
NoOutputCaptured == <<Tok("No output captured", 18)>>

\* the non-empty stripped lines of text
RECURSIVE NonEmptyStripped(_)
NonEmptyStripped(lines) ==
    IF lines = << >> THEN << >>
    ELSE IF Strip(Head(lines)) = << >> THEN NonEmptyStripped(Tail(lines))
    ELSE <<Strip(Head(lines))>> \o NonEmptyStripped(Tail(lines))

\* _extract_fallback_summary keeping the first lines instead of the last
extract_fallback_summary_FirstLines(text) ==
    LET lines == NonEmptyStripped(Split(text, NL))
    IN  IF lines = << >> THEN NoOutputCaptured
        ELSE LET summary_lines ==
                    IF Len(lines) > SummaryLines
                    THEN SubSeq(lines, 1, SummaryLines)
                    ELSE lines
             IN  Truncate(Join(summary_lines, SP), SummaryLimit)

\* _extract_fallback_summary(text), the same in both adapters
extract_fallback_summary(text) ==
    LET lines == NonEmptyStripped(Split(text, NL))
    IN  IF lines = << >> THEN NoOutputCaptured
        ELSE LET summary_lines ==
                    IF Len(lines) > SummaryLines
                    THEN SubSeq(lines, Len(lines) - SummaryLines + 1, Len(lines))
                    ELSE lines
             IN  Truncate(Join(summary_lines, SP), SummaryLimit)

(***************************************************************************)
(* JSON values, as far as the code looks into them.  A dict is a function  *)
(* from its keys to values, so an absent key is a key outside its domain.  *)
(***************************************************************************)
JStr(t) == [kind |-> "str", text |-> t]
JInt(n) == [kind |-> "int", n |-> n]
\* an array holding the one string t
JArr(t) == [kind |-> "arr", text |-> t]
JObj(f) == [kind |-> "obj", fields |-> f]
JNull == [kind |-> "null"]

\* bool(v)
Truthy(v) ==
    CASE v.kind = "str" -> v.text # << >>
      [] v.kind = "int" -> v.n # 0
      [] v.kind = "obj" -> DOMAIN v.fields # {}
      [] v.kind = "arr" -> TRUE
      [] v.kind = "null" -> FALSE

\* the dict with the given (key, value) pairs
Fields(pairs) ==
    [k \in {p[1] : p \in pairs} |-> (CHOOSE p \in pairs : p[1] = k)[2]]

\* key in d
Has(d, key) == key \in DOMAIN d.fields

\* d.get(key, default)
Get(d, key, default) == IF Has(d, key) THEN d.fields[key] ELSE default

\* isinstance(v, dict), isinstance(v, str)
IsDict(v) == v.kind = "obj"
IsStr(v) == v.kind = "str"

IsInt(v) == v.kind = "int"

\* v == 0 for a JSON value v: true of the number 0 only
EqualsZero(v) == IsInt(v) /\ v.n = 0

\* TokenUsage(input_tokens=i, ...) of four JSON values.  The dataclass checks
\* nothing: counts that are all integers give the record of their numbers,
\* any other value is stored as it came (the record then has the field
\* `untyped`)
TokenUsageOf(i, o, cr, cc) ==
    IF IsInt(i) /\ IsInt(o) /\ IsInt(cr) /\ IsInt(cc)
    THEN TokenUsage(i.n, o.n, cr.n, cc.n)
    ELSE [input_tokens |-> i, output_tokens |-> o, cache_read_tokens |-> cr,
          cache_creation_tokens |-> cc, untyped |-> TRUE]

\* add_usage(u) raises TypeError: `int += v` for a v that is no number
add_usage_raises(u) == "untyped" \in DOMAIN u

\* parse_token_usage returning None whenever one of the two counts is zero
parse_token_usage_EitherZero(json_data) ==
    LET top == Has(json_data, "usage") /\ IsDict(json_data.fields["usage"])
        nested == /\ ~top
                  /\ Has(json_data, "result")
                  /\ IsDict(json_data.fields["result"])
                  /\ Has(json_data.fields["result"], "usage")
                  /\ IsDict(json_data.fields["result"].fields["usage"])
    IN  IF ~top /\ ~nested
        THEN NoTokenUsage
        ELSE LET usage_data == IF top THEN json_data.fields["usage"]
                               ELSE json_data.fields["result"].fields["usage"]
                 input_tokens == Get(usage_data, "input_tokens", JInt(0))
                 output_tokens == Get(usage_data, "output_tokens", JInt(0))
                 cache_read ==
                    Get(usage_data, "cache_read_input_tokens", JInt(0))
                 cache_creation ==
                    Get(usage_data, "cache_creation_input_tokens", JInt(0))
             IN  IF EqualsZero(input_tokens) \/ EqualsZero(output_tokens)
                 THEN NoTokenUsage
                 ELSE TokenUsageOf(input_tokens, output_tokens,
                                   cache_read, cache_creation)

\* parse_token_usage(json_data), json_data a dict
parse_token_usage(json_data) ==
    LET top == Has(json_data, "usage") /\ IsDict(json_data.fields["usage"])
        nested == /\ ~top
                  /\ Has(json_data, "result")
                  /\ IsDict(json_data.fields["result"])
                  /\ Has(json_data.fields["result"], "usage")
                  /\ IsDict(json_data.fields["result"].fields["usage"])
    IN  IF ~top /\ ~nested
        THEN NoTokenUsage
        ELSE LET usage_data == IF top THEN json_data.fields["usage"]
                               ELSE json_data.fields["result"].fields["usage"]
                 input_tokens == Get(usage_data, "input_tokens", JInt(0))
                 output_tokens == Get(usage_data, "output_tokens", JInt(0))
                 cache_read ==
                    Get(usage_data, "cache_read_input_tokens", JInt(0))
                 cache_creation ==
                    Get(usage_data, "cache_creation_input_tokens", JInt(0))
             IN  IF EqualsZero(input_tokens) /\ EqualsZero(output_tokens)
                 THEN NoTokenUsage
                 ELSE TokenUsageOf(input_tokens, output_tokens,
                                   cache_read, cache_creation)

(***************************************************************************)
(* JSON text.  Render writes a value the way json.dumps (quote ") and      *)
(* Python's str() of a dict (quote ') do: a line break inside a string     *)
(* becomes the two characters backslash and n.  A raw output or line is a  *)
(* record of its text and of what json.loads makes of that text.           *)
(***************************************************************************)
DecodeError == [kind |-> "JSONDecodeError"]

LB == Tok("{", 1)

\* the keys of the dicts, in the order they are written
KeyOrder ==
    <<"type", "result", "part", "text", "content", "usage", "tokens",
      "input_tokens", "output_tokens", "cache_read_input_tokens",
      "cache_creation_input_tokens", "input", "output", "cache", "read",
      "write">>

RECURSIVE Escape(_)
Escape(t) ==
    IF t = << >> THEN << >>
    ELSE <<IF Head(t) = NL THEN Tok("\\n", 2) ELSE Head(t)>> \o Escape(Tail(t))

RECURSIVE Render(_, _)
RECURSIVE RenderFields(_, _, _, _)
Render(v, q) ==
    CASE v.kind = "str" -> <<q>> \o Escape(v.text) \o <<q>>
      [] v.kind = "int" -> <<Tok(ToString(v.n), 1)>>
      [] v.kind = "null" -> <<Tok("null", 4)>>
      [] v.kind = "arr" -> <<Tok("[", 1), q>> \o Escape(v.text) \o <<q, Tok("]", 1)>>
      [] v.kind = "obj" -> <<LB>> \o RenderFields(v.fields, 1, q, TRUE) \o <<Tok("}", 1)>>

RenderFields(f, k, q, first) ==
    IF k > Len(KeyOrder) THEN << >>
    ELSE IF KeyOrder[k] \notin DOMAIN f THEN RenderFields(f, k + 1, q, first)
    ELSE (IF first THEN << >> ELSE <<Tok(", ", 2)>>)
            \o <<Tok(q.c \o KeyOrder[k] \o q.c \o ": ", Len(KeyOrder[k]) + 4)>>
            \o Render(f[KeyOrder[k]], q)
            \o RenderFields(f, k + 1, q, FALSE)

\* json.dumps(v)
Serialize(v) == Render(v, Tok("\"", 1))

\* str(v) of a dict v
PyStr(v) == Render(v, Tok("'", 1))

\* a raw output that is no JSON document
PlainDoc(t) == [text |-> t, json |-> DecodeError]

\* a raw output that is the JSON document of value v
JsonDoc(v) == [text |-> Serialize(v), json |-> v]

\* json.loads(raw)
json_loads(raw) == raw.json

(***************************************************************************)
(* The adapters' parse_output.                                             *)
(***************************************************************************)
\* the marker search with <Improved> looked for first
find_marker_ImprovedFirst(text_content, summary_text, token_usage) ==
    LET completed_match == re_search(text_content, OpenCompleted, CloseCompleted)
        improved_match == re_search(text_content, OpenImproved, CloseImproved)
    IN  IF improved_match # << >>
        THEN ParseResult(FALSE, "improved", <<Strip(improved_match[1])>>,
                         Strip(improved_match[1]), token_usage)
        ELSE IF completed_match # << >>
        THEN ParseResult(FALSE, "completed", <<Strip(completed_match[1])>>,
                         Strip(completed_match[1]), token_usage)
        ELSE ParseResult(FALSE, None, << >>,
                         extract_fallback_summary(summary_text), token_usage)

\* the end of both parse_output functions: <Completed> is searched first,
\* then <Improved>, then the fallback summary is taken from summary_text.
\* output_message is <<m>>, or << >> for None.
find_marker(text_content, summary_text, token_usage) ==
    LET completed_match == re_search(text_content, OpenCompleted, CloseCompleted)
        improved_match == re_search(text_content, OpenImproved, CloseImproved)
    IN  IF completed_match # << >>
        THEN ParseResult(FALSE, "completed", <<Strip(completed_match[1])>>,
                         Strip(completed_match[1]), token_usage)
        ELSE IF improved_match # << >>
        THEN ParseResult(FALSE, "improved", <<Strip(improved_match[1])>>,
                         Strip(improved_match[1]), token_usage)
        ELSE ParseResult(FALSE, None, << >>,
                         extract_fallback_summary(summary_text), token_usage)

\* parse_output left by an exception
ParseRaised == ParseResult(TRUE, None, << >>, << >>, NoTokenUsage)

\* ClaudeAgent.parse_output up to the marker search: the value text_content
\* is bound to, which need not be a string
claude_text_content(raw) ==
    LET data == json_loads(raw)
    IN  IF data = DecodeError THEN JStr(raw.text)
        ELSE IF ~IsDict(data) THEN JStr(<< >>)
        ELSE LET result == Get(data, "result", JStr(<< >>))
             IN  IF IsStr(result) THEN result
                 ELSE IF IsDict(result)
                 THEN Get(result, "text", JStr(PyStr(result)))
                 ELSE JStr(<< >>)

\* ClaudeAgent.parse_output(raw_output)
claude_parse_output(raw) ==
    LET data == json_loads(raw)
        text_content == claude_text_content(raw)
        token_usage == IF data # DecodeError /\ IsDict(data)
                       THEN parse_token_usage(data) ELSE NoTokenUsage
    IN  \* re.search raises TypeError on anything but a string
        IF ~IsStr(text_content) THEN ParseRaised
        ELSE find_marker(text_content.text, text_content.text, token_usage)

\* an OpenCode raw output is the sequence of its lines, each a record like
\* the documents above; its text is the lines joined by line breaks
RECURSIVE LineTexts(_)
LineTexts(raw) ==
    IF raw = << >> THEN << >> ELSE <<Head(raw).text>> \o LineTexts(Tail(raw))

RawText(raw) == Join(LineTexts(raw), NL)

\* json.loads(line) for a line of raw; white space around a document is
\* ignored by json.loads
json_loads_line(line, raw) ==
    IF \E i \in 1..Len(raw) :
            raw[i].json # DecodeError /\ Strip(raw[i].text) = Strip(line)
    THEN raw[CHOOSE i \in 1..Len(raw) :
            raw[i].json # DecodeError /\ Strip(raw[i].text) = Strip(line)].json
    ELSE DecodeError

EventText == JStr(<<Tok("text", 4)>>)
EventStepFinish == JStr(<<Tok("step_finish", 11)>>)

\* one pass of the loop over the lines; acc holds text_content, token_usage
\* and whether an exception other than JSONDecodeError was raised
oc_line(line, raw, acc) ==
    LET data == json_loads_line(line, raw)
        part == Get(data, "part", JObj(<< >>))
    IN  IF Strip(line) = << >> THEN acc
        ELSE IF data = DecodeError
        THEN [acc EXCEPT !.text_content = @ \o line \o <<NL>>]
        ELSE IF ~IsDict(data) THEN acc
        ELSE IF Get(data, "type", JNull) = EventText
        THEN IF ~IsDict(part) THEN acc
             ELSE LET text == Get(part, "text", JStr(<< >>))
                  IN  IF ~Truthy(text) THEN acc
                      \* str += non-str raises TypeError
                      ELSE IF ~IsStr(text) THEN [acc EXCEPT !.raised = TRUE]
                      ELSE [acc EXCEPT !.text_content = @ \o text.text]
        ELSE IF Get(data, "type", JNull) = EventStepFinish
                /\ acc.token_usage = NoTokenUsage
        THEN IF ~IsDict(part) THEN acc
             ELSE LET tokens == Get(part, "tokens", JObj(<< >>))
                  IN  IF ~Truthy(tokens) THEN acc
                      \* tokens.get on a non-dict raises AttributeError
                      ELSE IF ~IsDict(tokens) THEN [acc EXCEPT !.raised = TRUE]
                      ELSE LET input_tokens == Get(tokens, "input", JInt(0))
                               output_tokens == Get(tokens, "output", JInt(0))
                               cache_info == Get(tokens, "cache", JObj(<< >>))
                               cache_read ==
                                  IF IsDict(cache_info)
                                  THEN Get(cache_info, "read", JInt(0))
                                  ELSE JInt(0)
                               cache_write ==
                                  IF IsDict(cache_info)
                                  THEN Get(cache_info, "write", JInt(0))
                                  ELSE JInt(0)
                           IN  IF Truthy(input_tokens) \/ Truthy(output_tokens)
                               THEN [acc EXCEPT !.token_usage =
                                        TokenUsageOf(input_tokens, output_tokens,
                                                     cache_read, cache_write)]
                               ELSE acc
        ELSE acc

RECURSIVE oc_lines(_, _, _)
oc_lines(lines, raw, acc) ==
    IF lines = << >> \/ acc.raised THEN acc
    ELSE oc_lines(Tail(lines), raw, oc_line(Head(lines), raw, acc))

\* the for loop of OpenCodeAgent.parse_output
oc_loop(raw) ==
    oc_lines(Split(Strip(RawText(raw)), NL), raw,
             [text_content |-> << >>, token_usage |-> NoTokenUsage,
              raised |-> FALSE])

\* opencode_text_content searching the raw output whatever was extracted
opencode_text_content_AlwaysRaw(raw) == RawText(raw)

\* OpenCodeAgent.parse_output up to the marker search: the transcript
opencode_text_content(raw) ==
    IF oc_loop(raw).text_content = << >> THEN RawText(raw)
    ELSE oc_loop(raw).text_content

\* OpenCodeAgent.parse_output(raw_output)
opencode_parse_output(raw) ==
    LET text_content == opencode_text_content(raw)
    IN  IF oc_loop(raw).raised THEN ParseRaised
        ELSE find_marker(text_content,
                         IF StartsWith(text_content, LB) THEN RawText(raw)
                         ELSE text_content,
                         oc_loop(raw).token_usage)

\* agent.parse_output(raw_output)
parse_output(agent_type, raw) ==
    IF agent_type = "claude" THEN claude_parse_output(raw)
    ELSE opencode_parse_output(raw)

\* the transcript the adapter searches; for ClaudeAgent a value that need
\* not be a string
text_content_of(agent_type, raw) ==
    IF agent_type = "claude" THEN claude_text_content(raw)
    ELSE JStr(opencode_text_content(raw))

(***************************************************************************)
(* Specification SpecParse: one call of parse_output of either adapter.    *)
(***************************************************************************)
MaxTagText == 5
MaxLines == 4
MaxEvents == 2

Seqs(S, n) == UNION {[1..k -> S] : k \in 0..n}

\* every text of up to MaxTagText pieces made of tags, a letter and a blank
TagAlphabet ==
    {OpenCompleted, CloseCompleted, OpenImproved, CloseImproved, X, SP}

TagTexts == Seqs(TagAlphabet, MaxTagText)

ShortTexts == Seqs(TagAlphabet, MaxTagText - 1)

\* the four tags in every order, with nothing, a letter or a padded letter
\* between them
Tags == {OpenCompleted, CloseCompleted, OpenImproved, CloseImproved}

Fillers == {<< >>, <<X>>, <<SP, X, SP>>}

SpanTexts ==
    {<<p[1]>> \o f1 \o <<p[2]>> \o f2 \o <<p[3]>> \o f3 \o <<p[4]>> :
        p \in {q \in [1..4 -> Tags] : \A i, j \in 1..4 : q[i] = q[j] => i = j},
        f1 \in Fillers, f2 \in Fillers, f3 \in Fillers}

\* texts without tags: up to MaxLines lines, blank, padded, short and long
LineShapes == {<< >>, <<SP>>, <<X>>, <<SP, X, SP>>, <<W>>, <<X, SP, X>>}

SummaryTexts == {Join(ls, NL) : ls \in Seqs(LineShapes, MaxLines)}

\* the raw outputs handed to ClaudeAgent.parse_output, by shape: plain text,
\* the object with a string result, and the other JSON documents
ClaudeShapes ==
    {"plain", "result", "array", "string", "noresult", "number", "null",
     "dict", "dictnotext", "dictnumber", "usage", "badusage"}

ClaudeTexts(shape) ==
    IF shape = "plain" THEN ShortTexts \cup SpanTexts \cup SummaryTexts
    ELSE IF shape = "result" THEN TagTexts \cup SpanTexts \cup SummaryTexts
    ELSE ShortTexts

ClaudeRaw(shape, t) ==
    CASE shape = "plain" -> PlainDoc(t)
      [] shape = "result" -> JsonDoc(JObj(Fields({<<"result", JStr(t)>>})))
      [] shape = "array" -> JsonDoc(JArr(t))
      [] shape = "string" -> JsonDoc(JStr(t))
      [] shape = "noresult" -> JsonDoc(JObj(Fields({<<"content", JStr(t)>>})))
      [] shape = "number" ->
            JsonDoc(JObj(Fields({<<"result", JInt(5)>>, <<"content", JStr(t)>>})))
      [] shape = "null" ->
            JsonDoc(JObj(Fields({<<"result", JNull>>, <<"content", JStr(t)>>})))
      [] shape = "dict" ->
            JsonDoc(JObj(Fields({<<"result",
                JObj(Fields({<<"text", JStr(t)>>}))>>})))
      [] shape = "dictnotext" ->
            JsonDoc(JObj(Fields({<<"result",
                JObj(Fields({<<"content", JStr(t)>>}))>>})))
      [] shape = "dictnumber" ->
            JsonDoc(JObj(Fields({<<"result",
                JObj(Fields({<<"text", JInt(5)>>, <<"content", JStr(t)>>}))>>})))
      [] shape = "usage" ->
            JsonDoc(JObj(Fields({<<"result", JStr(t)>>,
                <<"usage", JObj(Fields({<<"input_tokens", JInt(1)>>,
                                        <<"output_tokens", JInt(2)>>}))>>})))
      [] shape = "badusage" ->
            JsonDoc(JObj(Fields({<<"result", JStr(t)>>, <<"usage", JInt(5)>>})))

\* OpenCode events
TextEvent(text) ==
    JObj(Fields({<<"type", EventText>>,
                 <<"part", JObj(Fields({<<"text", text>>}))>>}))

StepFinish(part) == JObj(Fields({<<"type", EventStepFinish>>, <<"part", part>>}))

OtherEvent(t) ==
    JObj(Fields({<<"type", JStr(<<Tok("step_start", 10)>>)>>,
                 <<"content", JStr(t)>>}))

\* the fragments OpenCode events and plain lines carry
Pieces ==
    Seqs(TagAlphabet, 1)
    \cup {<<OpenCompleted, X, CloseCompleted>>, <<OpenImproved, SP, X, CloseImproved>>,
          <<LB, X>>}

OcLines ==
    {JsonDoc(TextEvent(JStr(t))) : t \in Pieces}
    \cup {PlainDoc(t) : t \in Pieces}
    \cup {JsonDoc(OtherEvent(t)) : t \in {<<X>>, <<OpenCompleted, X, CloseCompleted>>}}
    \cup {JsonDoc(TextEvent(JInt(5))),
          JsonDoc(StepFinish(JObj(Fields({<<"tokens", JInt(5)>>})))),
          JsonDoc(StepFinish(JObj(Fields({<<"tokens",
                JObj(Fields({<<"input", JInt(1)>>, <<"output", JInt(2)>>,
                             <<"cache", JObj(Fields({<<"read", JInt(3)>>}))>>}))>>}))))}

\* the raw outputs handed to OpenCodeAgent.parse_output: one text event,
\* or up to MaxEvents lines
OneEventTexts == TagTexts \cup SpanTexts \cup SummaryTexts

InitParse ==
    /\ Blank
    /\ pc = "parse_call"
    /\ \/ \E shape \in ClaudeShapes : \E t \in ClaudeTexts(shape) :
            call = [agent_type |-> "claude", raw |-> ClaudeRaw(shape, t)]
       \/ \E t \in OneEventTexts :
            call = [agent_type |-> "opencode",
                    raw |-> <<JsonDoc(TextEvent(JStr(t)))>>]
       \/ \E raw \in Seqs(OcLines, MaxEvents) :
            call = [agent_type |-> "opencode", raw |-> raw]

ParseOutput ==
    /\ pc = "parse_call"
    /\ outcome' = parse_output(call.agent_type, call.raw)
    /\ pc' = "parse_done"
    /\ UNCHANGED <<state, model, can_prompt, original, consecutive_errors,
                   max_iterations, max_consecutive_errors, via_cli, call,
                   ret, exit_code, ending, trace>>

NextParse == ParseOutput

SpecParse == InitParse /\ [][NextParse]_vars

(***************************************************************************)
(* Specification SpecUsage: one call of parse_token_usage.                 *)
(***************************************************************************)
MaxCount == 1

UsageKeys ==
    {"input_tokens", "output_tokens", "cache_read_input_tokens",
     "cache_creation_input_tokens"}

\* usage dicts: every key absent or a count
UsageDicts ==
    {JObj(f) : f \in UNION {[S -> {JInt(n) : n \in 0..MaxCount}] :
                                S \in SUBSET UsageKeys}}

\* what the "usage" key can hold: a dict or something that is none
UsageValues == UsageDicts \cup {JStr(<<X>>)}

\* the decoded objects handed to parse_token_usage
JsonDatas ==
    LET usage == {{}} \cup {{<<"usage", u>>} : u \in UsageValues}
        result == {{}, {<<"result", JStr(<<X, SP, X>>)>>}}
                    \cup {{<<"result", JObj(Fields(n))>>} : n \in usage}
    IN  {JObj(Fields(u \cup r)) : u \in usage, r \in result}

InitUsage ==
    /\ Blank
    /\ pc = "usage_call"
    /\ call \in [json_data : JsonDatas]

ParseTokenUsage ==
    /\ pc = "usage_call"
    /\ outcome' = parse_token_usage(call.json_data)
    /\ pc' = "usage_done"
    /\ UNCHANGED <<state, model, can_prompt, original, consecutive_errors,
                   max_iterations, max_consecutive_errors, via_cli, call,
                   ret, exit_code, ending, trace>>

NextUsage == ParseTokenUsage

SpecUsage == InitUsage /\ [][NextUsage]_vars

(***************************************************************************)
(* Specification SpecTracker: add_usage calls on a fresh TokenUsageTracker.*)
(* state.token_tracker is the tracker, trace the records handed to it.     *)
(***************************************************************************)
MaxAdds == 3

\* the usage records handed to the tracker
TrackedUsages ==
    {TokenUsage(0, 0, 0, 0), TokenUsage(1, 0, 0, 0), TokenUsage(0, 2, 0, 0),
     TokenUsage(3, 2, 1, 0), TokenUsage(1, 1, 0, 4), TokenUsage(2, 0, 5, 5)}

InitTracker ==
    /\ Blank
    /\ pc = "tracker"
    /\ call = [agent_type |-> None]

\* tracker.add_usage(u)
AddUsage ==
    /\ pc = "tracker"
    /\ state.token_tracker.iteration_count < MaxAdds
    /\ \E u \in TrackedUsages :
        /\ state' = [state EXCEPT !.token_tracker = add_usage(@, u)]
        /\ trace' = Append(trace, u)
    /\ UNCHANGED <<pc, model, can_prompt, original, consecutive_errors,
                   max_iterations, max_consecutive_errors, via_cli, call,
                   outcome, ret, exit_code, ending>>

NextTracker == AddUsage

SpecTracker == InitTracker /\ [][NextTracker]_vars

(***************************************************************************)
(* Specification SpecIter: one call of run_agent_iteration.                *)
(***************************************************************************)
InitIter ==
    /\ Blank
    /\ pc = "iter_call"
    /\ call \in [agent_type : AgentTypes \cup {"gpt"}, env : Envs]

\* the call is made and ends
RunAgentIteration ==
    /\ pc = "iter_call"
    /\ outcome' = run_agent_iteration(call.agent_type, call.env)
    /\ pc' = "iter_done"
    /\ UNCHANGED <<state, model, can_prompt, original, consecutive_errors,
                   max_iterations, max_consecutive_errors, via_cli, call,
                   ret, exit_code, ending, trace>>

NextIter == RunAgentIteration

SpecIter == InitIter /\ [][NextIter]_vars

(***************************************************************************)
(* The bounded command: run, run_loop and the interactive sub-loop.        *)
(***************************************************************************)
\* the plan texts of the model: "P0" comes from the command line (or the
\* plan file), "P1" from an edit
CliPlan == "P0"
EditedPlan == "P1"

\* resolve_plan_text(plan, plan_file): plan is None, "" or a text; plan_file
\* is None, "exists" or "gone" (the file vanished after typer checked it)
resolve_plan_text(plan, plan_file) ==
    LET has_plan == plan # None /\ plan # ""
        has_file == plan_file # None
    IN  IF has_plan /\ has_file
        THEN [ok |-> FALSE, text |-> "Cannot use both --plan and --plan-file"]
        ELSE IF ~has_plan /\ ~has_file
        THEN [ok |-> FALSE, text |-> "Must provide either --plan or --plan-file"]
        ELSE IF has_file
        THEN IF plan_file = "gone"
             THEN [ok |-> FALSE, text |-> "Plan file does not exist: F"]
             ELSE [ok |-> TRUE, text |-> CliPlan]
        ELSE [ok |-> TRUE, text |-> plan]

\* check_agent_available taking any exit code of the probe for success
check_agent_available_AnyExitCode(agent_type, probe) ==
    IF agent_type \notin AgentTypes
    THEN [available |-> FALSE, error |-> "Unknown agent type: " \o agent_type]
    ELSE IF probe \in {"rc0", "rc1"} THEN [available |-> TRUE, error |-> None]
    ELSE IF probe = "notfound"
    THEN [available |-> FALSE, error |-> agent_type \o " CLI not found in PATH."]
    ELSE IF probe = "timeout"
    THEN [available |-> FALSE,
          error |-> agent_type \o " CLI did not respond within 5 seconds"]
    ELSE [available |-> FALSE, error |-> "Error checking " \o agent_type \o " CLI: e"]

\* check_agent_available(agent_type); probe is what `<cmd> --version` does:
\* "rc0", "rc1", "notfound", "timeout" or "error"
check_agent_available(agent_type, probe) ==
    IF agent_type \notin AgentTypes
    THEN [available |-> FALSE, error |-> "Unknown agent type: " \o agent_type]
    ELSE IF probe = "rc0" THEN [available |-> TRUE, error |-> None]
    ELSE IF probe = "rc1"
    THEN [available |-> FALSE, error |-> agent_type \o " CLI returned error code 1"]
    ELSE IF probe = "notfound"
    THEN [available |-> FALSE, error |-> agent_type \o " CLI not found in PATH."]
    ELSE IF probe = "timeout"
    THEN [available |-> FALSE,
          error |-> agent_type \o " CLI did not respond within 5 seconds"]
    ELSE [available |-> FALSE, error |-> "Error checking " \o agent_type \o " CLI: e"]

Probes == {"rc0", "rc1", "notfound", "timeout", "error"}

\* the default model of run / run_endlessly for opencode
DefaultModel(agent, model_opt) ==
    IF agent = "opencode" /\ model_opt = None THEN "opencode/glm-4.7-free"
    ELSE model_opt

\* RunExitCode with IMPROVED falling into the error branch
RunExitCode_ImprovedIsError(status) ==
    IF status = COMPLETED THEN 0 ELSE 1

\* the exit code run derives from run_loop's status
RunExitCode(status) ==
    IF status = COMPLETED THEN 0
    ELSE IF status = IMPROVED THEN 2
    ELSE 1

\* f"...{i} iteration{'s' if i > 1 else ''}"
Iterations(i) == ToString(i) \o " iteration" \o (IF i > 1 THEN "s" ELSE "")

Return(iterations_run, status, message) ==
    [iterations_run |-> iterations_run, status |-> status, message |-> message]

\* run_loop returns r at return site site; run exits
Finish(r, site) ==
    /\ ret' = r
    /\ exit_code' = IF via_cli THEN RunExitCode(r.status) ELSE NoExit
    /\ ending' = site
    /\ pc' = "done"

\* an exception leaves run_loop and run: no return value, no typer.Exit
Abort ==
    /\ pc' = "aborted"
    /\ ending' = "EXCEPTION"
    /\ UNCHANGED <<ret, exit_code>>

\* CanPrompt without the terminal test
CanPrompt_IgnoresTerminal(interactive, isatty) == interactive

\* run_loop's `can_prompt = interactive and is_interactive_terminal()`
CanPrompt(interactive, isatty) == interactive /\ isatty

\* the command validates its options and builds the LoopState
Run ==
    /\ pc = "start"
    /\ \E plan \in {None, "", CliPlan}, plan_file \in {None, "exists", "gone"},
          iterations \in 1..MaxTotal, model_opt \in {None, "m"},
          agent \in AgentTypes \cup {"gpt"}, interactive \in BOOLEAN,
          isatty \in BOOLEAN, probe \in Probes :
        LET resolved == resolve_plan_text(plan, plan_file)
            valid == /\ resolved.ok
                     /\ agent \in {"claude", "opencode"}
                     /\ check_agent_available(agent, probe).available
        IN  /\ IF valid
               THEN /\ state' = LoopState(resolved.text, iterations, agent)
                    /\ model' = DefaultModel(agent, model_opt)
                    /\ can_prompt' = CanPrompt(interactive, isatty)
                    /\ pc' = "loop"
                    /\ UNCHANGED <<ret, exit_code, ending>>
               ELSE /\ exit_code' = 1
                    /\ ending' = "VALIDATION"
                    /\ pc' = "done"
                    /\ UNCHANGED <<state, model, can_prompt, ret>>
            \* the options the command was given; probe is "notrun" when
            \* an earlier validation ended the command
            /\ call' = [agent_type |-> agent, plan_ok |-> resolved.ok,
                        probe |-> IF resolved.ok /\ agent \in AgentTypes
                                  THEN probe ELSE "notrun",
                        interactive |-> interactive, isatty |-> isatty,
                        model_opt |-> model_opt]
    /\ via_cli' = TRUE
    /\ UNCHANGED <<original, consecutive_errors, max_iterations,
                   max_consecutive_errors, outcome, trace>>

\* BoundedDecision with COMPLETED handled like IMPROVED
BoundedDecision_CompletedContinues(status, current_iteration, total_iterations, prompting, skip_prompts) ==
    IF status \in {TIMEOUT, PROCESS_ERROR, MISSING_MARKER} THEN "error"
    ELSE LET is_last_iteration == current_iteration >= total_iterations
         IN  IF prompting /\ ~skip_prompts /\ ~is_last_iteration THEN "prompt"
             ELSE "next"

\* BoundedDecision with MISSING_MARKER left out of the error statuses
BoundedDecision_MissingMarkerContinues(status, current_iteration, total_iterations, prompting, skip_prompts) ==
    IF status = COMPLETED THEN "completed"
    ELSE IF status \in {TIMEOUT, PROCESS_ERROR} THEN "error"
    ELSE LET is_last_iteration == current_iteration >= total_iterations
         IN  IF prompting /\ ~skip_prompts /\ ~is_last_iteration THEN "prompt"
             ELSE "next"

\* BoundedDecision with is_last_iteration computed by > instead of >=
BoundedDecision_LastIterationPrompts(status, current_iteration, total_iterations, prompting, skip_prompts) ==
    IF status = COMPLETED THEN "completed"
    ELSE IF status \in {TIMEOUT, PROCESS_ERROR, MISSING_MARKER} THEN "error"
    ELSE LET is_last_iteration == current_iteration > total_iterations
         IN  IF prompting /\ ~skip_prompts /\ ~is_last_iteration THEN "prompt"
             ELSE "next"

\* BoundedDecision without the test of can_prompt
BoundedDecision_IgnoresCanPrompt(status, current_iteration, total_iterations, prompting, skip_prompts) ==
    IF status = COMPLETED THEN "completed"
    ELSE IF status \in {TIMEOUT, PROCESS_ERROR, MISSING_MARKER} THEN "error"
    ELSE LET is_last_iteration == current_iteration >= total_iterations
         IN  IF ~skip_prompts /\ ~is_last_iteration THEN "prompt"
             ELSE "next"

\* BoundedDecision without the test of skip_prompts
BoundedDecision_IgnoresSkip(status, current_iteration, total_iterations, prompting, skip_prompts) ==
    IF status = COMPLETED THEN "completed"
    ELSE IF status \in {TIMEOUT, PROCESS_ERROR, MISSING_MARKER} THEN "error"
    ELSE LET is_last_iteration == current_iteration >= total_iterations
         IN  IF prompting /\ ~is_last_iteration THEN "prompt"
             ELSE "next"

\* what run_loop does with the result of iteration i: "completed", "error",
\* "prompt" (call get_user_decision) or "next" (back to the while test)
BoundedDecision(status, current_iteration, total_iterations, prompting, skip_prompts) ==
    IF status = COMPLETED THEN "completed"
    ELSE IF status \in {TIMEOUT, PROCESS_ERROR, MISSING_MARKER} THEN "error"
    ELSE LET is_last_iteration == current_iteration >= total_iterations
         IN  IF prompting /\ ~skip_prompts /\ ~is_last_iteration THEN "prompt"
             ELSE "next"

\* result.error_message or result.status.value
ErrorDetail(result) ==
    IF result.error_message \notin {None, ""} THEN result.error_message
    ELSE result.status

\* Tracked leaving out the usage of an iteration without a marker
Tracked_SkipsMissingMarker(tracker, result) ==
    IF result.token_usage # NoTokenUsage /\ result.status # MISSING_MARKER
    THEN add_usage(tracker, result.token_usage)
    ELSE tracker

\* the tracker after `if result.token_usage: add_usage(...)`
Tracked(tracker, result) ==
    IF result.token_usage # NoTokenUsage
    THEN add_usage(tracker, result.token_usage)
    ELSE tracker

\* InvocationArgs with the settings the edit menu saved when it was entered
InvocationArgs_SettingsBeforeEdit(st, m) ==
    IF original.agent_type = None
    THEN [agent_type |-> st.agent_type, plan_text |-> st.plan_text, model |-> m]
    ELSE [agent_type |-> original.agent_type, plan_text |-> original.plan_text,
          model |-> m]

\* InvocationArgs with the opencode default model applied per iteration
InvocationArgs_ModelFollowsAgent(st, m) ==
    [agent_type |-> st.agent_type, plan_text |-> st.plan_text,
     model |-> IF st.agent_type = "opencode" /\ m = None
               THEN "opencode/glm-4.7-free" ELSE m]

\* the arguments of the loops' call of run_agent_iteration: the LoopState's
\* agent_type and plan_text as they are now, and the loop's model parameter
InvocationArgs(st, m) ==
    [agent_type |-> st.agent_type, plan_text |-> st.plan_text, model |-> m]

\* the command line and the stdin text agent.build_command makes of the
\* arguments: `--model` is appended when the model is truthy
build_command(agent_type, plan_text, m) ==
    LET flag == IF m # None /\ m # "" THEN <<"--model", m>> ELSE << >>
    IN  IF agent_type = "claude"
        THEN [cmd |-> <<"claude", "-p", "--dangerously-skip-permissions",
                        "--output-format", "json">> \o flag,
              stdin |-> <<"prompt", plan_text>>]
        ELSE [cmd |-> <<"opencode", "run", <<"prompt", plan_text>>,
                        "--format", "json">> \o flag,
              stdin |-> None]

IterationEntry(i, status, st) ==
    LET args == InvocationArgs(st, model)
    IN  [ev |-> "iteration", i |-> i, total |-> st.total_iterations,
         status |-> status, agent_type |-> args.agent_type,
         plan_text |-> args.plan_text, model |-> args.model]

PromptEntry == [ev |-> "prompt"]

\* one pass through the body of run_loop's while loop, up to the call of
\* get_user_decision, the next while test, or a return
RunLoopIteration ==
    /\ pc = "loop"
    /\ state.current_iteration < state.total_iterations
    /\ \E env \in LoopEnvs :
        LET i == state.current_iteration + 1
            o == run_agent_iteration(InvocationArgs(state, model).agent_type, env)
            result == o.result
            started == [state EXCEPT !.current_iteration = i]
            decision == BoundedDecision(result.status, i, state.total_iterations,
                                        can_prompt, state.skip_prompts)
        IN  /\ outcome' = o
            /\ IF o.kind = "raise"
               THEN /\ state' = started
                    /\ trace' = Append(trace, IterationEntry(i, "raised", state))
                    /\ Abort
               ELSE /\ state' = [started EXCEPT
                          !.token_tracker = Tracked(state.token_tracker, result)]
                    /\ trace' = Append(trace, IterationEntry(i, result.status, state))
                                \o (IF decision = "prompt" THEN <<PromptEntry>>
                                    ELSE << >>)
                    /\ CASE decision = "completed" ->
                              Finish(Return(i, COMPLETED,
                                  "Task completed in " \o Iterations(i)),
                                  "COMPLETED")
                         [] decision = "error" ->
                              Finish(Return(i, result.status,
                                  "Stopped at iteration " \o ToString(i)
                                  \o " due to: " \o ErrorDetail(result)),
                                  "STOPPED_ERROR")
                         [] decision = "prompt" ->
                              /\ pc' = "menu"
                              /\ UNCHANGED <<ret, exit_code, ending>>
                         [] OTHER ->
                              /\ pc' = "loop"
                              /\ UNCHANGED <<ret, exit_code, ending>>
    /\ UNCHANGED <<model, can_prompt, original, consecutive_errors,
                   max_iterations, max_consecutive_errors, via_cli, call>>

\* the while test fails: all iterations exhausted with IMPROVED
RunLoopExhausted ==
    /\ pc = "loop"
    /\ ~(state.current_iteration < state.total_iterations)
    /\ Finish(Return(state.total_iterations, IMPROVED,
                "Ran " \o ToString(state.total_iterations)
                \o " iterations without completing"), "EXHAUSTED")
    /\ UNCHANGED <<state, model, can_prompt, original, consecutive_errors,
                   max_iterations, max_consecutive_errors, via_cli, call,
                   outcome, trace>>

(***************************************************************************)
(* The interactive sub-loop: get_user_decision, prompt_main_menu,          *)
(* prompt_edit_menu and the prompts it calls.  pc = "menu" is the main     *)
(* menu's input(), pc = "edit" the edit menu's, pc = "plan_text",          *)
(* "plan_file", "count" and "agent" the input() of prompt_new_plan_text,   *)
(* prompt_plan_file_path, prompt_new_iteration_count and                   *)
(* prompt_agent_type.  An invalid choice prints a message and asks again   *)
(* without a change of state; it is a stuttering step.                     *)
(***************************************************************************)
\* the positions inside prompt_edit_menu
EditPositions == {"edit", "plan_text", "plan_file", "count", "agent"}

\* the positions inside get_user_decision
SubLoopPositions == {"menu"} \cup EditPositions

\* AfterDecision without the test of st.cancelled
AfterDecision_CancelIgnored(st) ==
    /\ state' = st
    /\ pc' = "loop"
    /\ UNCHANGED <<ret, exit_code, ending>>
    /\ UNCHANGED <<model, can_prompt, original, consecutive_errors,
                   max_iterations, max_consecutive_errors, via_cli, call,
                   outcome, trace>>

\* get_user_decision has returned with LoopState st: run_loop looks at
\* st.cancelled
AfterDecision(st) ==
    /\ state' = st
    /\ IF st.cancelled
       THEN Finish(Return(st.current_iteration, IMPROVED,
                "Cancelled by user after " \o Iterations(st.current_iteration)),
                "STOPPED_USER")
       ELSE /\ pc' = "loop"
            /\ UNCHANGED <<ret, exit_code, ending>>
    /\ UNCHANGED <<model, can_prompt, original, consecutive_errors,
                   max_iterations, max_consecutive_errors, via_cli, call,
                   outcome, trace>>

\* main menu, choice "" or "1"
MainMenuContinue ==
    /\ pc = "menu"
    /\ AfterDecision(state)

\* main menu, choice "4"
MainMenuCancel ==
    /\ pc = "menu"
    /\ AfterDecision([state EXCEPT !.cancelled = TRUE])

\* MainMenuSkip implemented as a cancellation that also sets skip_prompts
MainMenuSkip_AlsoCancels ==
    /\ pc = "menu"
    /\ AfterDecision([state EXCEPT !.skip_prompts = TRUE, !.cancelled = TRUE])

\* main menu, choice "3"
MainMenuSkip ==
    /\ pc = "menu"
    /\ AfterDecision([state EXCEPT !.skip_prompts = TRUE])

\* main menu, choice "2": prompt_edit_menu starts and saves the originals
MainMenuEdit ==
    /\ pc = "menu"
    /\ original' = [plan_text |-> state.plan_text,
                    total_iterations |-> state.total_iterations,
                    agent_type |-> state.agent_type]
    /\ pc' = "edit"
    /\ UNCHANGED <<state, model, can_prompt, consecutive_errors,
                   max_iterations, max_consecutive_errors, via_cli, call,
                   outcome, ret, exit_code, ending, trace>>

\* the points of the sub-loop where an exception can be raised while the
\* program is at the given position: its input() and, for the file and agent
\* prompts, the calls made with the answer
RaisePoints(position) ==
    {position}
    \cup (IF position = "plan_file" THEN {"plan_file_read"} ELSE {})
    \cup (IF position = "agent" THEN {"agent_probe"} ELSE {})

\* what can be raised at a point: every input() raises EOFError at the end
\* of input and KeyboardInterrupt; expanduser(), resolve() and exists() raise
\* RuntimeError and OSError; read_text() and subprocess.run raise OSError
Raisable(point) ==
    {"KeyboardInterrupt"}
    \cup (IF point \in {"plan_file_read", "agent_probe"} THEN {"OSError"}
          ELSE {"EOFError"})
    \cup (IF point = "plan_file" THEN {"RuntimeError", "OSError"} ELSE {})

\* Handlers with prompt_new_plan_text catching the interrupt as well, as its
\* "Ctrl+C to cancel" banner suggests
Handlers_PlanTextCatchesInterrupt(point) ==
    (IF point = "plan_text"
     THEN <<[frame |-> "prompt_new_plan_text", except |-> "EOFError"],
            [frame |-> "prompt_new_plan_text", except |-> "KeyboardInterrupt"]>>
     ELSE IF point = "plan_file_read"
     THEN <<[frame |-> "prompt_plan_file_path", except |-> "Exception"]>>
     ELSE IF point = "agent_probe"
     THEN <<[frame |-> "check_agent_available", except |-> "Exception"]>>
     ELSE << >>)
    \o <<[frame |-> "get_user_decision", except |-> "KeyboardInterrupt"]>>

\* the except clauses around a point of the sub-loop, innermost first
Handlers(point) ==
    (IF point = "plan_text"
     THEN <<[frame |-> "prompt_new_plan_text", except |-> "EOFError"]>>
     ELSE IF point = "plan_file_read"
     THEN <<[frame |-> "prompt_plan_file_path", except |-> "Exception"]>>
     ELSE IF point = "agent_probe"
     THEN <<[frame |-> "check_agent_available", except |-> "Exception"]>>
     ELSE << >>)
    \o <<[frame |-> "get_user_decision", except |-> "KeyboardInterrupt"]>>

\* `except <clause>` matches exc: KeyboardInterrupt is no Exception
Matches(clause, exc) ==
    \/ clause = exc
    \/ clause = "Exception" /\ exc # "KeyboardInterrupt"

\* the function whose handler catches exc raised at point, "none" if it
\* leaves get_user_decision
Catcher(point, exc) ==
    LET h == Handlers(point)
        hits == {k \in 1..Len(h) : Matches(h[k].except, exc)}
    IN  IF hits = {} THEN "none"
        ELSE h[CHOOSE k \in hits : \A j \in hits : k <= j].frame

\* KeyboardInterrupt at a point of the sub-loop reaches get_user_decision's
\* handler, which sets cancelled and returns
SubLoopInterrupt ==
    /\ pc \in SubLoopPositions
    /\ \E point \in RaisePoints(pc) :
        /\ "KeyboardInterrupt" \in Raisable(point)
        /\ Catcher(point, "KeyboardInterrupt") = "get_user_decision"
    /\ AfterDecision([state EXCEPT !.cancelled = TRUE])

\* an exception that no handler catches leaves the sub-loop and the run:
\* EOFError at an input() other than prompt_new_plan_text's, or the
\* RuntimeError / OSError of expanduser(), resolve() or exists() on the path
\* entered in prompt_plan_file_path
SubLoopRaises ==
    /\ pc \in SubLoopPositions
    /\ \E point \in RaisePoints(pc) : \E exc \in Raisable(point) :
        Catcher(point, exc) = "none"
    /\ Abort
    /\ UNCHANGED <<state, model, can_prompt, original, consecutive_errors,
                   max_iterations, max_consecutive_errors, via_cli, call,
                   outcome, trace>>

EditFrame ==
    UNCHANGED <<model, can_prompt, original, consecutive_errors,
                max_iterations, max_consecutive_errors, via_cli, call,
                outcome, ret, exit_code, ending, trace>>

\* edit menu, choice "1" or "2": prompt_new_plan_text or
\* prompt_plan_file_path starts
EditPlanOpen ==
    /\ pc = "edit"
    /\ \E choice \in {"1", "2"} :
        pc' = IF choice = "1" THEN "plan_text" ELSE "plan_file"
    /\ UNCHANGED state
    /\ EditFrame

\* the plan prompt returns new_plan and the edit menu applies it
EditPlan ==
    /\ pc \in {"plan_text", "plan_file"}
    /\ \E new_plan \in {None, EditedPlan} :
        state' = IF new_plan # None /\ new_plan # ""
                 THEN [state EXCEPT !.plan_text = new_plan]
                 ELSE state
    /\ pc' = "edit"
    /\ EditFrame

\* NewTotal taking the entered count for the total
NewTotal_CountIsTotal(current_iteration, new_remaining) == new_remaining

\* state.total_iterations after the count prompt returned new_remaining
NewTotal(current_iteration, new_remaining) == current_iteration + new_remaining

\* edit menu, choice "3": prompt_new_iteration_count starts
EditCountOpen ==
    /\ pc = "edit"
    /\ pc' = "count"
    /\ UNCHANGED state
    /\ EditFrame

\* the count prompt returns new_remaining, << >> for None, and the edit menu
\* applies it
EditIterationCount ==
    /\ pc = "count"
    /\ \E new_remaining \in {<< >>} \cup {<<n>> : n \in 0..MaxTotal} :
        IF new_remaining = << >>
        THEN state' = state
        ELSE /\ state.current_iteration + new_remaining[1] <= MaxTotal
             /\ state' = [state EXCEPT !.total_iterations =
                            NewTotal(state.current_iteration, new_remaining[1])]
    /\ pc' = "edit"
    /\ EditFrame

\* edit menu, choice "4": prompt_agent_type starts
EditAgentOpen ==
    /\ pc = "edit"
    /\ pc' = "agent"
    /\ UNCHANGED state
    /\ EditFrame

\* one answer at prompt_agent_type's input(): "" gives None, "1" claude,
\* "2" opencode when the probe finds it or the user confirms with "y";
\* otherwise the prompt asks again ("again")
prompt_agent_type(choice, probe, confirm) ==
    IF choice = "" THEN None
    ELSE IF choice = "1" THEN "claude"
    ELSE IF choice = "2"
    THEN IF check_agent_available("opencode", probe).available \/ confirm = "y"
         THEN "opencode"
         ELSE "again"
    ELSE "again"

\* the agent prompt returns and the edit menu applies its result
EditAgentType ==
    /\ pc = "agent"
    /\ \E choice \in {"", "1", "2"}, probe \in Probes, confirm \in {"y", ""} :
        LET new_agent == prompt_agent_type(choice, probe, confirm)
        IN  /\ new_agent # "again"
            /\ state' = IF new_agent # None
                        THEN [state EXCEPT !.agent_type = new_agent]
                        ELSE state
    /\ pc' = "edit"
    /\ EditFrame

\* edit menu, choice "5"
EditConfirm ==
    /\ pc = "edit"
    /\ AfterDecision(state)

\* EditCancel restoring the plan and the count but not the agent
EditCancel_KeepsAgent ==
    /\ pc = "edit"
    /\ state' = [state EXCEPT !.plan_text = original.plan_text,
                              !.total_iterations = original.total_iterations]
    /\ pc' = "menu"
    /\ EditFrame

\* edit menu, choice "6": restore the originals, back to the main menu
EditCancel ==
    /\ pc = "edit"
    /\ state' = [state EXCEPT !.plan_text = original.plan_text,
                              !.total_iterations = original.total_iterations,
                              !.agent_type = original.agent_type]
    /\ pc' = "menu"
    /\ EditFrame

Init ==
    /\ Blank
    /\ pc = "start"
    /\ call = NoCall

Next ==
    \/ Run
    \/ RunLoopIteration
    \/ RunLoopExhausted
    \/ MainMenuContinue
    \/ MainMenuCancel
    \/ MainMenuSkip
    \/ MainMenuEdit
    \/ SubLoopInterrupt
    \/ SubLoopRaises
    \/ EditPlanOpen
    \/ EditPlan
    \/ EditCountOpen
    \/ EditIterationCount
    \/ EditAgentOpen
    \/ EditAgentType
    \/ EditConfirm
    \/ EditCancel

Spec == Init /\ [][Next]_vars

\* The bounded command with its scheduling: the controller is sequential
\* code, so a step of run_loop that can be taken is taken (every invocation
\* returns or raises: subprocess.run is given the timeout); nothing obliges
\* the user to answer a prompt.
SpecFair == Spec /\ WF_vars(RunLoopIteration \/ RunLoopExhausted)

(***************************************************************************)
(* Specification SpecLoop: run_loop called directly, with a LoopState of   *)
(* the caller's making.                                                    *)
(***************************************************************************)
\* run_loop(folder, state, timeout, None, verbose, interactive) with any
\* flags in the LoopState handed in
CallRunLoop ==
    /\ pc = "start"
    /\ \E total \in 1..MaxTotal, skip_prompts \in BOOLEAN, cancelled \in BOOLEAN,
          interactive \in BOOLEAN, isatty \in BOOLEAN :
        /\ state' = [LoopState(CliPlan, total, "claude") EXCEPT
                        !.skip_prompts = skip_prompts,
                        !.cancelled = cancelled]
        /\ can_prompt' = CanPrompt(interactive, isatty)
        /\ call' = [agent_type |-> "claude", interactive |-> interactive,
                    isatty |-> isatty]
    /\ model' = None
    /\ via_cli' = FALSE
    /\ pc' = "loop"
    /\ UNCHANGED <<original, consecutive_errors, max_iterations,
                   max_consecutive_errors, outcome, ret, exit_code, ending,
                   trace>>

NextLoop ==
    \/ CallRunLoop
    \/ RunLoopIteration
    \/ RunLoopExhausted
    \/ MainMenuContinue
    \/ MainMenuCancel
    \/ MainMenuSkip
    \/ MainMenuEdit
    \/ SubLoopInterrupt
    \/ SubLoopRaises
    \/ EditPlanOpen
    \/ EditPlan
    \/ EditCountOpen
    \/ EditIterationCount
    \/ EditAgentOpen
    \/ EditAgentType
    \/ EditConfirm
    \/ EditCancel

SpecLoop == Init /\ [][NextLoop]_vars

(***************************************************************************)
(* The endless command: run_endlessly and run_endless_loop.                *)
(***************************************************************************)
\* total_iterations of the LoopState when no cap is given
EndlessTotal == 999999
\* the default of run_endless_loop's max_consecutive_errors
DefaultMaxConsecutiveErrors == 3

\* EndlessExitCode with IMPROVED reported as success
EndlessExitCode_ImprovedIsSuccess(status) ==
    IF status \in {TIMEOUT, PROCESS_ERROR} THEN 1
    ELSE IF status = IMPROVED THEN 0 ELSE 2

\* the exit code run_endlessly derives from run_endless_loop's status
EndlessExitCode(status) ==
    IF status \in {TIMEOUT, PROCESS_ERROR} THEN 1 ELSE 2

\* run_endless_loop returns r at return site site; run_endlessly exits
FinishEndless(r, site) ==
    /\ ret' = r
    /\ exit_code' = IF via_cli THEN EndlessExitCode(r.status) ELSE NoExit
    /\ ending' = site
    /\ pc' = "done"

Caps == {<< >>} \cup {<<m>> : m \in 1..MaxEndless}

\* the command validates its options, builds the LoopState and enters the
\* loop with the default threshold
RunEndlessly ==
    /\ pc = "start"
    /\ \E plan \in {None, "", CliPlan}, plan_file \in {None, "exists", "gone"},
          cap \in Caps, model_opt \in {None, "m"},
          agent \in AgentTypes \cup {"gpt"}, probe \in Probes :
        LET resolved == resolve_plan_text(plan, plan_file)
            valid == /\ resolved.ok
                     /\ agent \in {"claude", "opencode"}
                     /\ check_agent_available(agent, probe).available
        IN  IF valid
            THEN /\ state' = LoopState(resolved.text,
                        IF cap # << >> THEN cap[1] ELSE EndlessTotal, agent)
                 /\ model' = DefaultModel(agent, model_opt)
                 /\ max_iterations' = cap
                 /\ max_consecutive_errors' = DefaultMaxConsecutiveErrors
                 /\ pc' = "eloop"
                 /\ UNCHANGED <<ret, exit_code, ending>>
            ELSE /\ exit_code' = 1
                 /\ ending' = "VALIDATION"
                 /\ pc' = "done"
                 /\ UNCHANGED <<state, model, max_iterations,
                                max_consecutive_errors, ret>>
    /\ via_cli' = TRUE
    /\ consecutive_errors' = 0
    /\ UNCHANGED <<can_prompt, original, call, outcome, trace>>

\* run_endless_loop called directly with a fresh LoopState, as the tests do
CallRunEndlessLoop ==
    /\ pc = "start"
    /\ \E cap \in Caps, threshold \in 1..MaxThreshold :
        /\ state' = LoopState(CliPlan, EndlessTotal, "claude")
        /\ max_iterations' = cap
        /\ max_consecutive_errors' = threshold
    /\ model' = None
    /\ via_cli' = FALSE
    /\ consecutive_errors' = 0
    /\ pc' = "eloop"
    /\ UNCHANGED <<can_prompt, original, call, outcome, ret, exit_code,
                   ending, trace>>

\* CapReached with >= for >
CapReached_OffByOne(i, cap) == cap # << >> /\ i >= cap[1]

\* `max_iterations is not None and i > max_iterations`
CapReached(i, cap) == cap # << >> /\ i > cap[1]

\* NextErrors with MISSING_MARKER counted as an error
NextErrors_MissingMarkerCounts(status, errors) ==
    IF status \in {TIMEOUT, PROCESS_ERROR, MISSING_MARKER} THEN errors + 1 ELSE 0

\* consecutive_errors after an iteration of the given status
NextErrors(status, errors) ==
    IF status \in {TIMEOUT, PROCESS_ERROR} THEN errors + 1 ELSE 0

\* ThresholdReached with > for >=
ThresholdReached_Strict(status, errors, threshold) ==
    status \in {TIMEOUT, PROCESS_ERROR} /\ errors > threshold

\* `consecutive_errors >= max_consecutive_errors`, tested after an error
ThresholdReached(status, errors, threshold) ==
    status \in {TIMEOUT, PROCESS_ERROR} /\ errors >= threshold

\* the count run_endless_loop reports on KeyboardInterrupt
InterruptCount(st) == st.current_iteration

CancelledReturn(st) ==
    Return(InterruptCount(st), IMPROVED,
           "Cancelled by user after " \o Iterations(InterruptCount(st)))

EndlessFrame ==
    UNCHANGED <<model, can_prompt, original, max_iterations,
                max_consecutive_errors, via_cli, call>>

\* the loop body finds the cap exceeded
EndlessCapReached ==
    /\ pc = "eloop"
    /\ CapReached(state.current_iteration + 1, max_iterations)
    /\ state' = [state EXCEPT !.current_iteration = @ + 1]
    /\ FinishEndless(Return(state.current_iteration, IMPROVED,
            "Ran " \o Iterations(max_iterations[1]) \o " (max_iterations reached)"),
            "CAP")
    /\ UNCHANGED <<consecutive_errors, outcome, trace>>
    /\ EndlessFrame

\* one pass through the body of the `while True` loop with an invocation
EndlessIteration ==
    /\ pc = "eloop"
    /\ ~CapReached(state.current_iteration + 1, max_iterations)
    /\ state.current_iteration < MaxEndless
    /\ \E env \in LoopEnvs :
        LET i == state.current_iteration + 1
            o == run_agent_iteration(InvocationArgs(state, model).agent_type, env)
            result == o.result
            started == [state EXCEPT !.current_iteration = i]
            errors == NextErrors(result.status, consecutive_errors)
        IN  /\ outcome' = o
            /\ IF o.kind = "raise"
               THEN /\ state' = started
                    /\ UNCHANGED consecutive_errors
                    /\ IF o.exc = "KeyboardInterrupt"
                       THEN /\ trace' = Append(trace,
                                    IterationEntry(i, "interrupted", state))
                            /\ FinishEndless(CancelledReturn(started), "INTERRUPT")
                       ELSE /\ trace' = Append(trace,
                                    IterationEntry(i, "raised", state))
                            /\ Abort
               ELSE /\ state' = [started EXCEPT
                          !.token_tracker = Tracked(state.token_tracker, result)]
                    /\ trace' = Append(trace, IterationEntry(i, result.status, state))
                    /\ consecutive_errors' = errors
                    /\ IF ThresholdReached(result.status, errors,
                                           max_consecutive_errors)
                       THEN FinishEndless(Return(i, result.status,
                                "Stopped at iteration " \o ToString(i)
                                \o " after " \o ToString(errors)
                                \o " consecutive errors"), "THRESHOLD")
                       ELSE /\ pc' = "eloop"
                            /\ UNCHANGED <<ret, exit_code, ending>>
    /\ EndlessFrame

\* KeyboardInterrupt while the controller runs between two invocations
EndlessInterrupt ==
    /\ pc = "eloop"
    /\ FinishEndless(CancelledReturn(state), "INTERRUPT")
    /\ UNCHANGED <<state, consecutive_errors, outcome, trace>>
    /\ EndlessFrame

\* KeyboardInterrupt after `state.current_iteration += 1` and before the
\* call of run_agent_iteration (or before the return of the cap exit), for
\* instance while console.print runs
EndlessInterruptAfterIncrement ==
    /\ pc = "eloop"
    /\ state' = [state EXCEPT !.current_iteration = @ + 1]
    /\ FinishEndless(CancelledReturn(state'), "INTERRUPT")
    /\ UNCHANGED <<consecutive_errors, outcome, trace>>
    /\ EndlessFrame

NextEndless ==
    \/ RunEndlessly
    \/ CallRunEndlessLoop
    \/ EndlessCapReached
    \/ EndlessIteration
    \/ EndlessInterrupt
    \/ EndlessInterruptAfterIncrement

SpecEndless == Init /\ [][NextEndless]_vars

(***************************************************************************)
(* Specification SpecCli: the application with both of its commands.       *)
(***************************************************************************)
NextCli == Next \/ NextEndless

SpecCli == Init /\ [][NextCli]_vars

(***************************************************************************)
(* Specification SpecPrompt: one call of prompt_new_plan_text,             *)
(* prompt_plan_file_path or prompt_agent_type from the edit menu, fed a    *)
(* script of terminal answers.  call holds the script and what the file    *)
(* system and the agent probes answer, outcome the prompt's locals and     *)
(* what it printed; plan texts are texts as in SpecParse.  An Optional     *)
(* result is << >> for None and <<v>> for v.                               *)
(***************************************************************************)
\* the longest script of a plan text entry
MaxPlanLines == 5
\* the longest script of a file or agent prompt
MaxAnswers == 3

OldPlan == <<Tok("old plan", 8)>>
\* the content of a readable plan file: read_text() keeps the final newline
FilePlan == <<Tok("plan from file", 14), NL>>

\* the lines typed at prompt_new_plan_text: empty, a word, a blank
PlanLines == {<< >>, <<X>>, <<SP>>}

\* EntryEnds with the first empty line ending the entry
EntryEnds_FirstEmptyLine(empty_line_count) == empty_line_count >= 1

\* `if empty_line_count >= 2: break`
EntryEnds(empty_line_count) == empty_line_count >= 2

\* `while lines and lines[-1] == "": lines.pop()`
RECURSIVE PopEmpty(_)
PopEmpty(lines) ==
    IF lines # << >> /\ lines[Len(lines)] = << >>
    THEN PopEmpty(SubSeq(lines, 1, Len(lines) - 1))
    ELSE lines

\* what prompt_new_plan_text returns once its loop has ended with lines
PlanTextResult(lines) ==
    LET plan_text == Strip(Join(PopEmpty(lines), NL))
    IN  IF plan_text = << >> THEN << >> ELSE <<plan_text>>

\* the edit menu's `if new_plan: state.plan_text = new_plan`
ApplyPlan(st, new_plan) ==
    IF new_plan # << >> /\ new_plan[1] # << >>
    THEN [st EXCEPT !.plan_text = new_plan[1]]
    ELSE st

\* the locals of a prompt that has not read anything yet
PromptLocals ==
    [pos |-> 1, lines |-> << >>, empty_line_count |-> 0, printed |-> << >>,
     returned |-> FALSE, result |-> << >>]

\* an exception leaves the prompt, get_user_decision and the run
PromptAbort ==
    /\ pc' = "aborted"
    /\ ending' = "EXCEPTION"
    /\ UNCHANGED <<state, ret, exit_code>>

PromptFrame ==
    UNCHANGED <<model, can_prompt, original, consecutive_errors,
                max_iterations, max_consecutive_errors, via_cli, call, trace>>

\* one input() of prompt_new_plan_text and what follows it up to the next
\* input(): the loop goes on, or it ends (two empty lines in a row, or
\* EOFError at the end of the script) and the edit menu applies the result
PlanTextInput ==
    /\ pc = "plan_text"
    /\ LET eof == outcome.pos > Len(call.answers)
           empty == ~eof /\ call.answers[outcome.pos] = << >>
           count == IF eof THEN outcome.empty_line_count
                    ELSE IF empty THEN outcome.empty_line_count + 1
                    ELSE 0
           ends == IF eof
                   THEN Catcher("plan_text", "EOFError") = "prompt_new_plan_text"
                   ELSE empty /\ EntryEnds(count)
           lines == IF eof \/ ends THEN outcome.lines
                    ELSE Append(outcome.lines, call.answers[outcome.pos])
           new_plan == PlanTextResult(lines)
       IN  /\ outcome' = [outcome EXCEPT
                    !.pos = IF eof THEN @ ELSE @ + 1,
                    !.lines = lines,
                    !.empty_line_count = count,
                    !.returned = ends,
                    !.result = IF ends THEN new_plan ELSE @,
                    !.printed = IF ~ends THEN @
                                ELSE IF new_plan = << >>
                                THEN Append(@, "Empty plan text - keeping original plan.")
                                ELSE Append(@, "Plan updated.")]
           /\ IF ends
              THEN /\ state' = ApplyPlan(state, new_plan)
                   /\ pc' = "edit"
                   /\ UNCHANGED <<ret, exit_code, ending>>
              ELSE IF eof
              THEN PromptAbort
              ELSE /\ pc' = "plan_text"
                   /\ UNCHANGED <<state, ret, exit_code, ending>>
    /\ PromptFrame

\* what the file system makes of an entered path: "" is an empty entry;
\* "nohome" names a user that does not exist (~nobody/plan.md), "toolong" has
\* a component longer than the file system allows; "missing" does not exist;
\* "dir" is a directory; "unreadable" cannot be read or decoded; "blank" is a
\* file of white space; "plan" is a file with a plan
PathKinds ==
    {"", "nohome", "toolong", "missing", "dir", "unreadable", "blank", "plan"}

\* one pass of prompt_plan_file_path's loop for an entered path
plan_file_pass(kind) ==
    IF kind = ""
    THEN [do |-> "return", result |-> << >>,
          message |-> "Cancelled - keeping original plan."]
    ELSE IF kind = "nohome"
    THEN IF Catcher("plan_file", "RuntimeError") = "none"
         THEN [do |-> "raise", result |-> << >>, message |-> ""]
         ELSE [do |-> "again", result |-> << >>, message |-> ""]
    ELSE IF kind = "toolong"
    THEN IF Catcher("plan_file", "OSError") = "none"
         THEN [do |-> "raise", result |-> << >>, message |-> ""]
         ELSE [do |-> "again", result |-> << >>, message |-> ""]
    ELSE IF kind = "missing"
    THEN [do |-> "again", result |-> << >>, message |-> "File does not exist: p"]
    ELSE IF kind = "dir"
    THEN [do |-> "again", result |-> << >>, message |-> "Not a file: p"]
    ELSE IF kind = "unreadable"
    THEN IF Catcher("plan_file_read", "OSError") = "prompt_plan_file_path"
         THEN [do |-> "again", result |-> << >>, message |-> "Error reading file: e"]
         ELSE [do |-> "raise", result |-> << >>, message |-> ""]
    ELSE IF kind = "blank"
    THEN [do |-> "return", result |-> << >>,
          message |-> "File is empty - keeping original plan."]
    ELSE [do |-> "return", result |-> <<FilePlan>>, message |-> "Loaded plan from: p"]

\* one input() of prompt_plan_file_path and what follows it up to the next
\* input()
PlanFileInput ==
    /\ pc = "plan_file"
    /\ IF outcome.pos > Len(call.answers)
       THEN /\ Catcher("plan_file", "EOFError") = "none"
            /\ PromptAbort
            /\ UNCHANGED outcome
       ELSE LET pass == plan_file_pass(call.answers[outcome.pos])
                read == [outcome EXCEPT
                            !.pos = @ + 1,
                            !.printed = IF pass.message = "" THEN @
                                        ELSE Append(@, pass.message)]
            IN  CASE pass.do = "raise" ->
                        /\ outcome' = read
                        /\ PromptAbort
                  [] pass.do = "again" ->
                        /\ outcome' = read
                        /\ pc' = "plan_file"
                        /\ UNCHANGED <<state, ret, exit_code, ending>>
                  [] OTHER ->
                        /\ outcome' = [read EXCEPT !.returned = TRUE,
                                                   !.result = pass.result]
                        /\ state' = ApplyPlan(state, pass.result)
                        /\ pc' = "edit"
                        /\ UNCHANGED <<ret, exit_code, ending>>
    /\ PromptFrame

\* the answers typed at prompt_agent_type, stripped
AgentAnswers == {"", "1", "2", "x", "y", "Y"}

\* str.lower() of an answer
Lower(answer) == IF answer = "Y" THEN "y" ELSE answer

\* one `Choice [1-2]` input() of prompt_agent_type and what follows it up to
\* the next one: for choice 2 with opencode unavailable the warning and the
\* `Continue? [y/N]` input()
AgentInput ==
    /\ pc = "agent"
    /\ IF outcome.pos > Len(call.answers)
       THEN /\ Catcher("agent", "EOFError") = "none"
            /\ PromptAbort
            /\ UNCHANGED outcome
       ELSE LET choice == call.answers[outcome.pos]
                probed == choice = "2"
                check == check_agent_available("opencode", call.probes.opencode)
                warned == probed /\ ~check.available
                eof == warned /\ outcome.pos + 1 > Len(call.answers)
                confirm == IF warned /\ ~eof
                           THEN Lower(call.answers[outcome.pos + 1]) ELSE ""
                new_agent == prompt_agent_type(choice, call.probes.opencode, confirm)
                read == [outcome EXCEPT
                            !.pos = IF warned /\ ~eof THEN @ + 2 ELSE @ + 1,
                            !.printed =
                                IF warned THEN Append(@, "Warning: " \o check.error)
                                ELSE IF choice = ""
                                THEN Append(@, "Cancelled - keeping current agent.")
                                ELSE IF choice \notin {"1", "2"}
                                THEN Append(@, "Invalid choice. Please enter 1 or 2.")
                                ELSE @]
            IN  IF eof
                THEN /\ outcome' = read
                     /\ PromptAbort
                ELSE IF new_agent = "again"
                THEN /\ outcome' = read
                     /\ pc' = "agent"
                     /\ UNCHANGED <<state, ret, exit_code, ending>>
                ELSE /\ outcome' = [read EXCEPT
                            !.returned = TRUE,
                            !.result = IF new_agent = None THEN << >>
                                       ELSE <<new_agent>>]
                     /\ state' = IF new_agent # None
                                 THEN [state EXCEPT !.agent_type = new_agent]
                                 ELSE state
                     /\ pc' = "edit"
                     /\ UNCHANGED <<ret, exit_code, ending>>
    /\ PromptFrame

\* the edit menu has just called one of the three prompts
InitPrompt ==
    /\ model = None
    /\ can_prompt = TRUE
    /\ consecutive_errors = 0
    /\ max_iterations = << >>
    /\ max_consecutive_errors = 0
    /\ via_cli = FALSE
    /\ ret = NoReturn
    /\ exit_code = NoExit
    /\ ending = ""
    /\ trace = << >>
    /\ outcome = PromptLocals
    /\ \E agent \in AgentTypes :
        /\ state = [LoopState(OldPlan, 2, agent) EXCEPT !.current_iteration = 1]
        /\ original = [plan_text |-> OldPlan, total_iterations |-> 2,
                       agent_type |-> agent]
        /\ \/ /\ pc = "plan_text"
              /\ agent = "claude"
              /\ \E answers \in Seqs(PlanLines, MaxPlanLines) :
                    call = [prompt |-> "plan_text", answers |-> answers]
           \/ /\ pc = "plan_file"
              /\ agent = "claude"
              /\ \E answers \in Seqs(PathKinds, MaxAnswers) :
                    call = [prompt |-> "plan_file", answers |-> answers]
           \/ /\ pc = "agent"
              /\ \E answers \in Seqs(AgentAnswers, MaxAnswers) :
                 \E claude \in {"rc0", "notfound"}, opencode \in Probes :
                    call = [prompt |-> "agent", answers |-> answers,
                            probes |-> [claude |-> claude, opencode |-> opencode]]

NextPrompt ==
    \/ PlanTextInput
    \/ PlanFileInput
    \/ AgentInput

SpecPrompt == InitPrompt /\ [][NextPrompt]_vars

(***************************************************************************)
(* Specification SpecStream: one iteration whose agent exits with code 0   *)
(* and a given output, followed up to the loop's token accumulation:       *)
(* run_agent_iteration with the adapter's parse_output, then               *)
(* `if result.token_usage: state.token_tracker.add_usage(...)`.            *)
(***************************************************************************)
\* the number of lines of an OpenCode output
MaxStream == 3

\* the Python string of a text, piece by piece
RECURSIVE AsString(_)
AsString(t) == IF t = << >> THEN "" ELSE Head(t).c \o AsString(Tail(t))

\* the `tokens` values of step_finish events: complete, a later step's,
\* all zero, no dict, a count that is a string, a cache that is no dict
StreamTokens ==
    {JObj(Fields({<<"input", JInt(1)>>, <<"output", JInt(2)>>,
                  <<"cache", JObj(Fields({<<"read", JInt(3)>>}))>>})),
     JObj(Fields({<<"input", JInt(4)>>, <<"output", JInt(0)>>})),
     JObj(Fields({<<"input", JInt(0)>>, <<"output", JInt(0)>>})),
     JInt(5),
     JObj(Fields({<<"input", JStr(<<X>>)>>, <<"output", JInt(2)>>})),
     JObj(Fields({<<"input", JInt(1)>>, <<"output", JInt(2)>>,
                  <<"cache", JInt(5)>>}))}

\* the text fragments of text events: the halves of a <Completed> span and
\* an <Improved> span
StreamFragments ==
    {<<OpenCompleted, X>>, <<CloseCompleted>>,
     <<OpenImproved, X, CloseImproved>>}

\* the lines of an OpenCode output
StreamLines ==
    {JsonDoc(StepFinish(JObj(Fields({<<"tokens", t>>})))) : t \in StreamTokens}
    \cup {JsonDoc(StepFinish(JObj(<< >>))), JsonDoc(StepFinish(JInt(5)))}
    \cup {JsonDoc(TextEvent(JStr(t))) : t \in StreamFragments}
    \cup {JsonDoc(TextEvent(JInt(5)))}
    \cup {PlainDoc(<<CloseCompleted>>)}
    \cup {JsonDoc(OtherEvent(<<OpenCompleted, X, CloseCompleted>>))}

\* the `usage` values of a Claude output: complete, no dict, a count that is
\* a string, a count that is null, a cache count that is a string
ClaudeUsages ==
    {JObj(Fields({<<"input_tokens", JInt(1)>>, <<"output_tokens", JInt(2)>>})),
     JInt(5),
     JObj(Fields({<<"input_tokens", JStr(<<X>>)>>, <<"output_tokens", JInt(2)>>})),
     JObj(Fields({<<"input_tokens", JNull>>, <<"output_tokens", JInt(0)>>})),
     JObj(Fields({<<"input_tokens", JInt(1)>>, <<"output_tokens", JInt(0)>>,
                  <<"cache_read_input_tokens", JStr(<<X>>)>>}))}

\* the Claude outputs: a result with or without a marker, with each usage or
\* none
ClaudeStreamDocs ==
    {JsonDoc(JObj(Fields({<<"result", JStr(t)>>}))) :
        t \in {<<OpenImproved, X, CloseImproved>>, <<X>>}}
    \cup {JsonDoc(JObj(Fields({<<"result", JStr(t)>>, <<"usage", u>>}))) :
            t \in {<<OpenImproved, X, CloseImproved>>, <<X>>}, u \in ClaudeUsages}

\* what subprocess.run and agent.parse_output give run_agent_iteration for
\* the output raw of an agent that exited with code 0
StreamEnv(agent_type, raw) ==
    LET parsed == parse_output(agent_type, raw)
    IN  Env("dir", "exit", 0, "",
            AsString(IF agent_type = "claude" THEN raw.text ELSE RawText(raw)),
            ParseResult(parsed.raises, parsed.marker_type,
                        IF parsed.output_message = << >> THEN ""
                        ELSE AsString(parsed.output_message[1]),
                        AsString(parsed.summary), parsed.token_usage))

InitStream ==
    /\ Blank
    /\ pc = "stream_call"
    /\ \/ \E raw \in Seqs(StreamLines, MaxStream) :
            call = [agent_type |-> "opencode", raw |-> raw]
       \/ \E raw \in ClaudeStreamDocs :
            call = [agent_type |-> "claude", raw |-> raw]

StreamFrame ==
    UNCHANGED <<model, can_prompt, original, consecutive_errors,
                max_iterations, max_consecutive_errors, via_cli, call,
                ret, exit_code, ending, trace>>

\* result = run_agent_iteration(...)
StreamIteration ==
    /\ pc = "stream_call"
    /\ outcome' = run_agent_iteration(call.agent_type,
                                      StreamEnv(call.agent_type, call.raw))
    /\ pc' = "returned"
    /\ UNCHANGED state
    /\ StreamFrame

\* `if result.token_usage: state.token_tracker.add_usage(result.token_usage)`
StreamAccumulate ==
    /\ pc = "returned"
    /\ LET result == outcome.result
       IN  IF result.token_usage # NoTokenUsage
                /\ add_usage_raises(result.token_usage)
           THEN /\ pc' = "aborted"
                /\ UNCHANGED state
           ELSE /\ pc' = "tracked"
                /\ state' = [state EXCEPT
                        !.token_tracker = Tracked(state.token_tracker, result)]
    /\ UNCHANGED outcome
    /\ StreamFrame

NextStream ==
    \/ StreamIteration
    \/ StreamAccumulate

SpecStream == InitStream /\ [][NextStream]_vars

(***************************************************************************)
(* Properties.                                                             *)
(***************************************************************************)
\* the positions of the trace that are agent invocations
Invocations == {k \in 1..Len(trace) : trace[k].ev = "iteration"}

\* the statuses of the iterations that produced an outcome, oldest first
Statuses ==
    LET done == SelectSeq(trace,
                    LAMBDA e : e.ev = "iteration" /\ e.status \in RunStatus)
    IN  [k \in 1..Len(done) |-> done[k].status]

ErrorStatuses == {TIMEOUT, PROCESS_ERROR}

\* the length of the run of TIMEOUT / PROCESS_ERROR outcomes that ends s
TrailingErrors(s) ==
    Cardinality({k \in 1..Len(s) : \A j \in k..Len(s) : s[j] \in ErrorStatuses})

\* C1: in the bounded loop an iteration that ends COMPLETED is the last thing
\* that happens: nothing (no invocation, no prompt) follows it in the trace,
\* whatever budget remains, and run_loop has returned (i, COMPLETED, "Task
\* completed in i iteration(s)") with i the index of that iteration.
C1_CompletedEndsLoop ==
    \A k \in Invocations :
        trace[k].status = COMPLETED =>
            /\ k = Len(trace)
            /\ trace[k].i = Cardinality(Invocations)
            /\ pc = "done"
            /\ ending = "COMPLETED"
            /\ ret = Return(trace[k].i, COMPLETED,
                            "Task completed in " \o Iterations(trace[k].i))

\* COMPLETED on iteration 1 of a larger budget, with prompting possible
C1_Witness ==
    /\ pc = "done"
    /\ ret.status = COMPLETED
    /\ ret.iterations_run = 1
    /\ state.total_iterations = MaxTotal
    /\ can_prompt

\* C2: in the bounded loop an iteration that ends TIMEOUT, PROCESS_ERROR or
\* MISSING_MARKER is the last thing that happens: nothing follows it in the
\* trace, and run_loop has returned (i, that status, "Stopped at iteration i
\* due to: " followed by the outcome's error message).
C2_ErrorEndsLoop ==
    \A k \in Invocations :
        trace[k].status \in {TIMEOUT, PROCESS_ERROR, MISSING_MARKER} =>
            /\ k = Len(trace)
            /\ trace[k].i = Cardinality(Invocations)
            /\ pc = "done"
            /\ ending = "STOPPED_ERROR"
            /\ outcome.result.status = trace[k].status
            /\ outcome.result.error_message \notin {None, ""}
            /\ ret = Return(trace[k].i, trace[k].status,
                            "Stopped at iteration " \o ToString(trace[k].i)
                            \o " due to: " \o outcome.result.error_message)

\* MISSING_MARKER on an iteration after which a prompt would have been due
C2_Witness ==
    /\ pc = "done"
    /\ ret.status = MISSING_MARKER
    /\ ret.iterations_run = 2
    /\ state.current_iteration < state.total_iterations
    /\ can_prompt
    /\ ~state.skip_prompts

\* C3: in the bounded loop an IMPROVED iteration that was the last allowed
\* one (i = total_iterations when it ran) is followed by nothing in the trace
\* (no prompt, no invocation); the loop is at its while test or has returned
\* (N, IMPROVED, "Ran N iterations without completing"), where N is
\* total_iterations and the number of invocations made.
C3_LastImprovedExhausts ==
    \A k \in Invocations :
        (trace[k].status = IMPROVED /\ trace[k].i = trace[k].total) =>
            /\ k = Len(trace)
            /\ pc \in {"loop", "done"}
            /\ pc = "done" =>
                /\ ending = "EXHAUSTED"
                /\ state.total_iterations = trace[k].i
                /\ Cardinality(Invocations) = trace[k].i
                /\ ret = Return(trace[k].i, IMPROVED,
                        "Ran " \o ToString(trace[k].i)
                        \o " iterations without completing")

\* exhausted after several iterations of a run that was prompting
C3_Witness ==
    /\ pc = "done"
    /\ ending = "EXHAUSTED"
    /\ can_prompt
    /\ ~state.skip_prompts
    /\ ret.iterations_run = MaxTotal
    /\ \E k \in 1..Len(trace) : trace[k].ev = "prompt"

\* C4: in bounded mode current_iteration is 0 before the first iteration,
\* equals the number of iterations started, changes only by +1 together with
\* one new invocation, and never exceeds total_iterations, whatever the user
\* does in the sub-loop.
C4_CurrentIterationBounded ==
    /\ [](/\ state.current_iteration = Cardinality(Invocations)
          /\ state.current_iteration <= state.total_iterations)
    /\ [][\/ state.current_iteration' = state.current_iteration
          \/ /\ state.current_iteration' = state.current_iteration + 1
             /\ Len(SelectSeq(trace', LAMBDA e : e.ev = "iteration"))
                  = Len(SelectSeq(trace, LAMBDA e : e.ev = "iteration")) + 1]_vars

\* the remaining count was edited to 0 and confirmed after an iteration
C4_Witness ==
    /\ pc = "loop"
    /\ Len(trace) > 0
    /\ trace[Len(trace)].ev = "prompt"
    /\ state.current_iteration = state.total_iterations
    /\ state.current_iteration >= 1

\* C5: the exit code of run follows from how the run ended: 0 exactly for
\* COMPLETED, 2 exactly for exhausted or cancelled by the user, 1 exactly for
\* a TIMEOUT / PROCESS_ERROR / MISSING_MARKER stop or a failed validation.
C5_ExitCodes ==
    /\ pc = "done" =>
        /\ exit_code \in {0, 1, 2}
        /\ exit_code = 0 <=> ending = "COMPLETED"
        /\ exit_code = 2 <=> ending \in {"EXHAUSTED", "STOPPED_USER"}
        /\ exit_code = 1 <=> ending \in {"STOPPED_ERROR", "VALIDATION"}
        /\ ending = "STOPPED_ERROR" =>
              ret.status \in {TIMEOUT, PROCESS_ERROR, MISSING_MARKER}
        /\ ending = "STOPPED_USER" => state.cancelled
        /\ ending = "VALIDATION" => trace = << >>
    /\ pc # "done" => exit_code = NoExit

\* a run the user cancelled
C5_Witness ==
    /\ pc = "done"
    /\ ending = "STOPPED_USER"
    /\ exit_code = 2

\* the endless loop is running or has ended at one of its return sites
InEndlessLoop == pc = "eloop" \/ ending \in {"CAP", "THRESHOLD", "INTERRUPT", "EXCEPTION"}

\* C6: in the endless loop a COMPLETED, IMPROVED or MISSING_MARKER outcome
\* never ends the loop: after it the counter is 0 and the loop goes on (it can
\* then only end by the cap or an interrupt), and the counter always equals
\* the number of TIMEOUT / PROCESS_ERROR outcomes since the last such outcome.
C6_SoftOutcomesResetCounter ==
    InEndlessLoop =>
        /\ consecutive_errors = TrailingErrors(Statuses)
        /\ (Len(Statuses) > 0
            /\ Statuses[Len(Statuses)] \in {COMPLETED, IMPROVED, MISSING_MARKER}) =>
                /\ consecutive_errors = 0
                /\ ending # "THRESHOLD"
                /\ \/ pc = "eloop"
                   \/ ending \in {"CAP", "INTERRUPT", "EXCEPTION"}
                /\ (pc = "eloop" /\ ~CapReached(state.current_iteration + 1,
                                                max_iterations)
                             /\ state.current_iteration < MaxEndless)
                      => ENABLED EndlessIteration

\* two errors separated by a MISSING_MARKER, threshold 2, loop still running
C6_Witness ==
    /\ pc = "eloop"
    /\ max_consecutive_errors = 2
    /\ Len(Statuses) = 3
    /\ Statuses[1] \in ErrorStatuses
    /\ Statuses[2] = MISSING_MARKER
    /\ Statuses[3] \in ErrorStatuses
    /\ consecutive_errors = 1

\* the last K outcomes exist and are all TIMEOUT or PROCESS_ERROR
LastAllErrors(K) ==
    /\ Len(Statuses) >= K
    /\ \A j \in (Len(Statuses) - K + 1)..Len(Statuses) :
          Statuses[j] \in ErrorStatuses

\* C7: with threshold K >= 1 the endless loop has ended by the error
\* threshold exactly when the last K outcomes are all TIMEOUT or
\* PROCESS_ERROR; it then returned (i, the status of iteration i, "Stopped at
\* iteration i after K consecutive errors") with i the number of iterations.
C7_ThresholdExit ==
    InEndlessLoop =>
        /\ ending = "THRESHOLD" <=> LastAllErrors(max_consecutive_errors)
        /\ ending = "THRESHOLD" =>
            /\ pc = "done"
            /\ consecutive_errors = max_consecutive_errors
            /\ Cardinality(Invocations) = Len(Statuses)
            /\ ret = Return(Len(Statuses), Statuses[Len(Statuses)],
                    "Stopped at iteration " \o ToString(Len(Statuses))
                    \o " after " \o ToString(max_consecutive_errors)
                    \o " consecutive errors")

\* run_endlessly with the default threshold 3, every iteration timing out
C7_Witness ==
    /\ via_cli
    /\ ending = "THRESHOLD"
    /\ max_consecutive_errors = 3
    /\ Statuses = <<TIMEOUT, TIMEOUT, TIMEOUT>>
    /\ ret.iterations_run = 3
    /\ ret.status = TIMEOUT

\* C8: with a cap M the endless loop makes at most M invocations; when it
\* ends by the cap it has run exactly M iterations and returned (M, IMPROVED,
\* "Ran M iteration(s) (max_iterations reached)"); and once M iterations are
\* done without the threshold exit, no further invocation can start.
C8_CapExit ==
    (InEndlessLoop /\ max_iterations # << >>) =>
        /\ Cardinality(Invocations) <= max_iterations[1]
        /\ ending = "CAP" =>
            /\ pc = "done"
            /\ Len(Statuses) = max_iterations[1]
            /\ Cardinality(Invocations) = max_iterations[1]
            /\ ret = Return(max_iterations[1], IMPROVED,
                    "Ran " \o Iterations(max_iterations[1])
                    \o " (max_iterations reached)")
        /\ (pc = "eloop" /\ Len(Statuses) = max_iterations[1]) =>
            /\ ENABLED EndlessCapReached
            /\ ~ENABLED EndlessIteration

\* the cap exit taken with a nonzero error counter and mixed statuses
C8_Witness ==
    /\ ending = "CAP"
    /\ max_iterations = <<3>>
    /\ consecutive_errors = 2
    /\ Statuses[1] = COMPLETED

\* C9: an interrupt ends the endless loop at once and the count it reports,
\* in the return value and in the message, is the number of iterations
\* completed so far; the exit differs from the threshold and the cap exit.
C9_InterruptReportsCompleted ==
    ending = "INTERRUPT" =>
        /\ pc = "done"
        /\ ret = Return(Len(Statuses), IMPROVED,
                "Cancelled by user after " \o Iterations(Len(Statuses)))

\* C10: run_agent_iteration never lets an exception out: whatever goes wrong
\* at any step, every call returns an AgentRunResult with one of the five
\* statuses, and a failure carries an error message.  (The interrupt
\* KeyboardInterrupt, which the loop controllers handle themselves, is not
\* counted as an exception here.)
C10_NoExceptionEscapes ==
    (pc = "iter_done" /\ call.env.spawn # "interrupt") =>
        /\ outcome.kind = "return"
        /\ outcome.result.status \in RunStatus
        /\ outcome.result.status \in {TIMEOUT, PROCESS_ERROR, MISSING_MARKER}
              => outcome.result.error_message \notin {None, ""}

\* a call whose folder and agent tag pass validation
ValidCall == call.env.folder = "dir" /\ call.agent_type \in AgentTypes

\* C11: a missing folder, a folder path that is not a directory and an
\* unknown agent tag each give PROCESS_ERROR without subprocess.run being
\* attempted, each with its own error message.
C11_InvalidInputNoSpawn ==
    pc = "iter_done" =>
        /\ (call.env.folder \in {"missing", "file"}
             \/ (call.env.folder = "dir" /\ call.agent_type \notin AgentTypes))
            => /\ outcome.kind = "return"
               /\ outcome.result.status = PROCESS_ERROR
               /\ ~outcome.spawned
               /\ outcome.child = "none"
        /\ call.env.folder = "missing"
            => outcome.result.error_message = "Folder does not exist: F"
        /\ call.env.folder = "file"
            => outcome.result.error_message = "Path is not a directory: F"
        /\ (call.env.folder = "dir" /\ call.agent_type \notin AgentTypes)
            => outcome.result.error_message
                 = "Unknown agent type: gpt. Available: ['claude', 'opencode']"

\* a path that exists but is a file, with a known agent, was rejected
C11_Witness ==
    /\ pc = "iter_done"
    /\ call.env.folder = "file"
    /\ call.agent_type = "claude"
    /\ outcome.result.status = PROCESS_ERROR
    /\ ~outcome.spawned

C13_NonzeroExitIsProcessError ==
    (pc = "iter_done" /\ ValidCall /\ call.env.spawn = "exit"
        /\ call.env.returncode # 0) =>
        /\ outcome.kind = "return"
        /\ outcome.result.status = PROCESS_ERROR
        /\ outcome.result.return_code = call.env.returncode
        /\ outcome.result.error_message
             = (IF call.env.stderr # "" THEN call.env.stderr
                ELSE "Process exited with code "
                        \o ToString(call.env.returncode))
        /\ outcome.result.raw_output = call.env.stdout
        /\ outcome.result.output_message = ""
        /\ outcome.result.token_usage = NoTokenUsage

\* exit code 2, silent stderr, and a completion marker on stdout
C13_Witness ==
    /\ pc = "iter_done"
    /\ ValidCall
    /\ call.env.returncode = 2
    /\ call.env.stderr = ""
    /\ call.env.stdout = "<Completed>x</Completed>"
    /\ call.env.parse.marker_type = "completed"
    /\ outcome.result.error_message = "Process exited with code 2"

\* C14: after a zero exit the status follows the marker the adapter found:
\* none gives MISSING_MARKER with an empty output_message and the fallback
\* summary, completed gives COMPLETED, improved gives IMPROVED, both with
\* the marker's text as output_message and as summary.  So output_message
\* is empty in every outcome whose status is not IMPROVED or COMPLETED.
C14_ZeroExitFollowsMarker ==
    pc = "iter_done" =>
        /\ (ValidCall /\ call.env.spawn = "exit" /\ call.env.returncode = 0
                /\ ~call.env.parse.raises)
            => /\ outcome.kind = "return"
               /\ outcome.result.return_code = 0
               /\ call.env.parse.marker_type = None
                    => /\ outcome.result.status = MISSING_MARKER
                       /\ outcome.result.output_message = ""
                       /\ outcome.result.summary = call.env.parse.summary
               /\ call.env.parse.marker_type = "completed"
                    => outcome.result.status = COMPLETED
               /\ call.env.parse.marker_type = "improved"
                    => outcome.result.status = IMPROVED
               /\ call.env.parse.marker_type # None
                    => /\ outcome.result.output_message
                            = call.env.parse.output_message
                       /\ outcome.result.summary
                            = outcome.result.output_message
        /\ (outcome.kind = "return"
                /\ outcome.result.status \notin {IMPROVED, COMPLETED})
            => outcome.result.output_message = ""

\* a zero exit without marker, with a fallback summary
C14_Witness ==
    /\ pc = "iter_done"
    /\ ValidCall
    /\ call.env.returncode = 0
    /\ call.env.parse.marker_type = None
    /\ call.env.parse.summary = "last lines"
    /\ outcome.result.status = MISSING_MARKER
    /\ outcome.result.output_message = ""

\* C18: run probes the selected agent once, before the loop starts.  A probe
\* that ends with a nonzero exit code, a missing binary or no answer within
\* 5 seconds reports the agent unavailable with a non-empty error, and the
\* command ends with exit code 1 before any iteration; a probe that exits
\* with zero reports it available with no error.  Iterations are never
\* preceded by a further probe of their own.
C18_ProbeGatesRun ==
    pc # "start" =>
        /\ call.probe \in {"rc1", "notfound", "timeout", "error"}
            => /\ ~check_agent_available(call.agent_type, call.probe).available
               /\ check_agent_available(call.agent_type, call.probe).error
                    \notin {None, ""}
               /\ pc = "done"
               /\ ending = "VALIDATION"
               /\ exit_code = 1
               /\ trace = << >>
               /\ state = LoopState(None, 0, None)
        /\ call.probe = "rc0"
            => /\ check_agent_available(call.agent_type, call.probe)
                    = [available |-> TRUE, error |-> None]
               /\ ending # "VALIDATION"
        /\ trace # << >> => call.probe = "rc0"

\* a valid command line whose agent did not answer the probe in time
C18_Witness ==
    /\ pc = "done"
    /\ call.plan_ok
    /\ call.agent_type = "opencode"
    /\ call.probe = "timeout"
    /\ exit_code = 1
    /\ trace = << >>

\* the sum of field f over the records of s
RECURSIVE SumField(_, _)
SumField(s, f) == IF s = << >> THEN 0 ELSE Head(s)[f] + SumField(Tail(s), f)

\* the tracker after add_usage of every record of s in turn
RECURSIVE AddAll(_, _)
AddAll(t, s) == IF s = << >> THEN t ELSE AddAll(add_usage(t, Head(s)), Tail(s))

\* the rearrangements of 1..n
Orders(n) == {p \in [1..n -> 1..n] : \A i, j \in 1..n : p[i] = p[j] => i = j}

CounterFields ==
    {"total_input_tokens", "total_output_tokens", "total_cache_read_tokens",
     "total_cache_creation_tokens", "iteration_count"}

\* C19: after N add_usage calls on a fresh tracker iteration_count is N,
\* usages holds the N records, each of the four totals is the sum of its
\* field over the records whatever the order they were added in, and
\* total_tokens, of a record and of the tracker, is input plus output with
\* the cache counters left out.
C19_TrackerSums ==
    pc = "tracker" =>
        LET t == state.token_tracker
            N == Len(trace)
        IN  /\ t.iteration_count = N
            /\ t.usages = trace
            /\ t.total_input_tokens = SumField(trace, "input_tokens")
            /\ t.total_output_tokens = SumField(trace, "output_tokens")
            /\ t.total_cache_read_tokens = SumField(trace, "cache_read_tokens")
            /\ t.total_cache_creation_tokens
                 = SumField(trace, "cache_creation_tokens")
            /\ \A p \in Orders(N) :
                 LET t2 == AddAll(NewTracker, [i \in 1..N |-> trace[p[i]]])
                 IN  \A f \in CounterFields : t2[f] = t[f]
            /\ TrackerTotalTokens(t)
                 = SumField(trace, "input_tokens")
                    + SumField(trace, "output_tokens")
            /\ \A i \in 1..N :
                 UsageTotalTokens(trace[i])
                    = trace[i].input_tokens + trace[i].output_tokens

\* three different records, cache counters among them, were added
C19_Witness ==
    /\ pc = "tracker"
    /\ Len(trace) = 3
    /\ trace[1] # trace[2] /\ trace[2] # trace[3] /\ trace[1] # trace[3]
    /\ state.token_tracker.total_cache_read_tokens = 6
    /\ state.token_tracker.total_cache_creation_tokens = 9
    /\ TrackerTotalTokens(state.token_tracker) = 9

\* the usage object parse_token_usage finds in d: << >> when there is none
FoundUsage(d) ==
    IF "usage" \in DOMAIN d.fields /\ d.fields["usage"].kind = "obj"
    THEN <<d.fields["usage"].fields>>
    ELSE IF /\ "result" \in DOMAIN d.fields
            /\ d.fields["result"].kind = "obj"
            /\ "usage" \in DOMAIN d.fields["result"].fields
            /\ d.fields["result"].fields["usage"].kind = "obj"
    THEN <<d.fields["result"].fields["usage"].fields>>
    ELSE << >>

\* field key of usage dict u, 0 when absent
CountOf(u, key) == IF key \in DOMAIN u THEN u[key].n ELSE 0

HasTranscript ==
    /\ IsStr(text_content_of(call.agent_type, call.raw))
    /\ call.agent_type = "opencode" => ~oc_loop(call.raw).raised

Transcript == text_content_of(call.agent_type, call.raw).text

\* t contains an open tag with a close tag somewhere after it
HasSpan(t, open, close) ==
    \E i, j \in 1..Len(t) : i < j /\ t[i] = open /\ t[j] = close

\* the text between the first open tag that is followed by a close tag and
\* the first close tag after it
FirstSpanInner(t, open, close) ==
    LET i == CHOOSE i \in 1..Len(t) :
                /\ t[i] = open /\ \E j \in (i + 1)..Len(t) : t[j] = close
                /\ \A k \in 1..(i - 1) :
                     ~(t[k] = open /\ \E j \in (k + 1)..Len(t) : t[j] = close)
        j == CHOOSE j \in (i + 1)..Len(t) :
                t[j] = close /\ \A k \in (i + 1)..(j - 1) : t[k] # close
    IN  SubSeq(t, i + 1, j - 1)

AllSpace(t) == \A i \in 1..Len(t) : IsSpace(t[i])

\* t without the white space at its two ends
Trimmed(t) ==
    IF AllSpace(t) THEN << >>
    ELSE LET a == CHOOSE a \in 1..Len(t) :
                    ~IsSpace(t[a]) /\ \A k \in 1..(a - 1) : IsSpace(t[k])
             b == CHOOSE b \in 1..Len(t) :
                    ~IsSpace(t[b]) /\ \A k \in (b + 1)..Len(t) : IsSpace(t[k])
         IN  SubSeq(t, a, b)

\* C15: for both adapters, a transcript holding both a <Completed> span and
\* an <Improved> span parses as "completed", with the trimmed inner text of
\* the first <Completed> span as output_message and summary, whichever tag
\* comes first, however many spans there are and however they are nested
\* or interleaved.
C15_CompletedWins ==
    (/\ pc = "parse_done"
     /\ HasTranscript
     /\ HasSpan(Transcript, OpenCompleted, CloseCompleted)
     /\ HasSpan(Transcript, OpenImproved, CloseImproved)) =>
        LET inner == Trimmed(FirstSpanInner(Transcript, OpenCompleted,
                                            CloseCompleted))
        IN  /\ ~outcome.raises
            /\ outcome.marker_type = "completed"
            /\ outcome.output_message = <<inner>>
            /\ outcome.summary = inner

\* an <Improved> span that starts first and ends inside the <Completed>
\* span, in an OpenCode text event
C15_Witness ==
    /\ pc = "parse_done"
    /\ call.agent_type = "opencode"
    /\ HasTranscript
    /\ Transcript = <<OpenImproved, OpenCompleted, SP, X, SP, CloseImproved,
                      X, CloseCompleted>>
    /\ outcome.marker_type = "completed"
    /\ outcome.output_message = <<<<X, SP, CloseImproved, X>>>>

\* the last up to n non-empty trimmed lines of t, found from the end
RECURSIVE LastLines(_, _)
LastLines(t, n) ==
    IF n = 0 \/ AllSpace(t) THEN << >>
    ELSE LET b == CHOOSE b \in 1..Len(t) :
                    ~IsSpace(t[b]) /\ \A k \in (b + 1)..Len(t) : IsSpace(t[k])
             a == CHOOSE a \in 1..b :
                    /\ \A k \in a..b : t[k] # NL
                    /\ a > 1 => t[a - 1] = NL
         IN  LastLines(SubSeq(t, 1, a - 1), n - 1)
                \o <<Trimmed(SubSeq(t, a, b))>>

\* r is the first min(len(full), limit) characters of full
IsPrefixOfLength(r, full, limit) ==
    /\ TextLen(r) = (IF TextLen(full) < limit THEN TextLen(full) ELSE limit)
    /\ Len(r) <= Len(full)
    /\ \A i \in 1..(Len(r) - 1) : r[i] = full[i]
    /\ r # << >> => /\ r[Len(r)].c = full[Len(r)].c
                    /\ r[Len(r)].n <= full[Len(r)].n

\* the text the fallback summary is taken from: the transcript, except that
\* OpenCodeAgent takes the raw output when the transcript starts with "{"
SummarySource ==
    IF call.agent_type = "opencode" /\ StartsWith(Transcript, LB)
    THEN RawText(call.raw) ELSE Transcript

\* C16: for every transcript holding neither marker span parse_output
\* returns no marker kind and no output_message, and a summary that is never
\* empty and never longer than 500 characters: the last up to 3 non-empty
\* trimmed lines joined by single blanks and cut to 500 characters, or
\* "No output captured" when the text is empty or white space only.
C16_FallbackSummary ==
    (/\ pc = "parse_done"
     /\ HasTranscript
     /\ ~HasSpan(Transcript, OpenCompleted, CloseCompleted)
     /\ ~HasSpan(Transcript, OpenImproved, CloseImproved)) =>
        /\ ~outcome.raises
        /\ outcome.marker_type = None
        /\ outcome.output_message = << >>
        /\ outcome.summary # << >>
        /\ TextLen(outcome.summary) \in 1..500
        /\ IF AllSpace(SummarySource)
           THEN outcome.summary = <<Tok("No output captured", 18)>>
           ELSE IsPrefixOfLength(outcome.summary,
                                 Join(LastLines(SummarySource, 3), SP), 500)

\* four lines, the last three of them 300 letters long and padded: the
\* summary is cut inside the second one
C16_Witness ==
    /\ pc = "parse_done"
    /\ call.agent_type = "claude"
    /\ HasTranscript
    /\ Transcript = <<X, NL, W, NL, W, NL, W>>
    /\ outcome.marker_type = None
    /\ outcome.summary = <<W, SP, Tok("w", 199)>>

\* json.loads gave something other than the one object carrying the
\* response text: an error, a value that is no object, or an object whose
\* result is neither a string nor an object
UnexpectedShape(raw) ==
    \/ raw.json = DecodeError
    \/ raw.json.kind # "obj"
    \/ /\ "result" \in DOMAIN raw.json.fields
       /\ raw.json.fields["result"].kind \notin {"str", "obj"}

\* C17: whenever ClaudeAgent.parse_output cannot decode the raw output as
\* the one JSON object carrying the response text (no valid JSON, or valid
\* JSON of another shape: an array, a bare string, an object whose result
\* is neither a string nor an object), the whole raw output is the
\* plain-text transcript, so a marker anywhere in the raw output is found.
C17_UndecodableIsPlainText ==
    (/\ pc = "parse_done"
     /\ call.agent_type = "claude"
     /\ UnexpectedShape(call.raw)) =>
        /\ ~outcome.raises
        /\ HasSpan(call.raw.text, OpenCompleted, CloseCompleted)
            => outcome.marker_type = "completed"
        /\ (/\ ~HasSpan(call.raw.text, OpenCompleted, CloseCompleted)
            /\ HasSpan(call.raw.text, OpenImproved, CloseImproved))
            => outcome.marker_type = "improved"

\* the step runs an agent iteration of the bounded loop
BoundedIterationStep ==
    /\ pc = "loop"
    /\ state'.current_iteration = state.current_iteration + 1

\* the step calls get_user_decision
SubLoopInvoked ==
    /\ Len(trace') > Len(trace)
    /\ trace'[Len(trace')] = PromptEntry

\* run_endless_loop has been called: its threshold is set
EndlessLoopEntered == max_consecutive_errors > 0

\* C21: in the bounded loop get_user_decision is called after an iteration
\* exactly when the iteration returned IMPROVED, --interactive was given, the
\* standard input is a terminal, state.skip_prompts is false and the
\* iteration is not the last allowed one; no other step calls it, and the
\* endless loop never does: it is never inside the sub-loop and its trace
\* holds no prompt.
C21_SubLoopInvokedIff ==
    /\ [][/\ BoundedIterationStep =>
                (SubLoopInvoked <=>
                    /\ outcome'.kind = "return"
                    /\ outcome'.result.status = IMPROVED
                    /\ call.interactive
                    /\ call.isatty
                    /\ ~state.skip_prompts
                    /\ state'.current_iteration < state.total_iterations)
          /\ SubLoopInvoked => BoundedIterationStep /\ pc' = "menu"
          /\ (pc \notin SubLoopPositions /\ pc' \in SubLoopPositions)
                => SubLoopInvoked]_vars
    /\ [](EndlessLoopEntered =>
            /\ pc \notin SubLoopPositions
            /\ \A k \in 1..Len(trace) : trace[k] # PromptEntry)

\* the sub-loop is entered a second time, after iteration 2 of a larger budget
C21_Witness ==
    /\ pc = "menu"
    /\ call.interactive
    /\ call.isatty
    /\ ~state.skip_prompts
    /\ state.current_iteration = 2
    /\ state.current_iteration < state.total_iterations
    /\ Len(trace) = 4
    /\ trace[2] = PromptEntry
    /\ trace[4] = PromptEntry

\* C22: once state.skip_prompts is true it stays true, get_user_decision is
\* not called again and the run is never inside the sub-loop again: every
\* later iteration that returns IMPROVED is followed by the while test of the
\* loop, with no prompt.
C22_SkipPromptsIsPermanent ==
    [][state.skip_prompts =>
        /\ state'.skip_prompts
        /\ ~SubLoopInvoked
        /\ pc' \notin SubLoopPositions
        /\ (/\ BoundedIterationStep
            /\ outcome'.kind = "return"
            /\ outcome'.result.status = IMPROVED) => pc' = "loop"]_vars

\* prompts were skipped after iteration 1 and iteration 2, not the last one
\* of a run that can prompt, returned IMPROVED
C22_Witness ==
    /\ state.skip_prompts
    /\ can_prompt
    /\ pc = "loop"
    /\ state.current_iteration = 2
    /\ state.current_iteration < state.total_iterations
    /\ Len(trace) = 3
    /\ trace[2] = PromptEntry
    /\ trace[3].ev = "iteration"
    /\ trace[3].status = IMPROVED

\* the step is a return of get_user_decision to run_loop
SubLoopReturns ==
    /\ pc \in SubLoopPositions
    /\ pc' \notin SubLoopPositions
    /\ pc' # "aborted"

\* what run_loop does when get_user_decision returned with cancelled set: it
\* returns (i, IMPROVED, "Cancelled by user after i iteration(s)") at once
CancelledStops ==
    /\ pc' = "done"
    /\ ending' = "STOPPED_USER"
    /\ exit_code' = 2
    /\ ret' = Return(state.current_iteration, IMPROVED,
                "Cancelled by user after " \o Iterations(state.current_iteration))
    /\ state'.current_iteration = state.current_iteration
    /\ trace' = trace

\* a run that ended STOPPED_USER made no invocation after its last prompt
StoppedUserIsFinal ==
    ending = "STOPPED_USER" =>
        /\ pc = "done"
        /\ state.cancelled
        /\ trace[Len(trace)] = PromptEntry
        /\ ret.iterations_run = Cardinality(Invocations)

\* C23 as stated: when get_user_decision returns with state.cancelled set,
\* run_loop returns (i, IMPROVED, "Cancelled by user after i iteration(s)")
\* and starts no further iteration; when it returns without cancellation the
\* loop goes on to the next iteration (one is left to run).
C23_CancelStopsElseNextIteration ==
    /\ [][SubLoopReturns =>
            IF state'.cancelled
            THEN CancelledStops
            ELSE /\ pc' = "loop"
                 /\ state'.current_iteration < state'.total_iterations]_vars
    /\ []StoppedUserIsFinal

\* C23 amended: when get_user_decision returns with state.cancelled set,
\* run_loop returns (i, IMPROVED, "Cancelled by user after i iteration(s)")
\* and starts no further iteration; when it returns without cancellation the
\* loop goes back to its while test, with no return value yet.  An iteration
\* is then left to run unless the return was the confirmation of an edit that
\* set the remaining count to 0.
C23_CancelStopsElseWhileTest ==
    /\ [][SubLoopReturns =>
            IF state'.cancelled
            THEN CancelledStops
            ELSE /\ pc' = "loop"
                 /\ ret' = NoReturn
                 /\ \/ state'.current_iteration < state'.total_iterations
                    \/ /\ pc = "edit"
                       /\ state'.total_iterations = state'.current_iteration
                       /\ state'.total_iterations < original.total_iterations]_vars
    /\ []StoppedUserIsFinal

\* cancelled at the main menu after iteration 2, with budget left
C23_Witness ==
    /\ pc = "done"
    /\ ending = "STOPPED_USER"
    /\ ret = Return(2, IMPROVED, "Cancelled by user after 2 iterations")
    /\ state.total_iterations = MaxTotal
    /\ Cardinality(Invocations) = 2

Settings(st) ==
    [plan_text |-> st.plan_text, total_iterations |-> st.total_iterations,
     agent_type |-> st.agent_type]

\* the settings the last iteration was started with, as the trace has them
LastIterationSettings ==
    LET e == trace[CHOOSE k \in Invocations : \A j \in Invocations : j <= k]
    IN  [plan_text |-> e.plan_text, total_iterations |-> e.total,
         agent_type |-> e.agent_type]

EntryEnd(A) ==
    LET pairs == {p \in 2..Len(A) : A[p] = << >> /\ A[p - 1] = << >>}
    IN  IF pairs = {} THEN Len(A) + 1
        ELSE CHOOSE p \in pairs : \A q \in pairs : p <= q

\* text t holds the pieces of u next to each other
Contains(t, u) ==
    \E i \in 0..(Len(t) - Len(u)) : SubSeq(t, i + 1, i + Len(u)) = u

\* C26: prompt_new_plan_text reads lines up to the second of two empty lines
\* in a row, or the end of input, and no further.  The plan it yields is the
\* lines before that point joined by newlines, without blank lines at the
\* end: an empty line between two non-empty lines is still in it.  When
\* that text is empty the prompt returns None and state.plan_text keeps its
\* value; otherwise state.plan_text becomes that text.
C26_PlanTextEntry ==
    call.prompt = "plan_text" =>
        LET A == call.answers
            end == EntryEnd(A)
            entered == SubSeq(A, 1, end - 1)
            text == Strip(Join(entered, NL))
        IN  /\ pc = "plan_text" => outcome.pos <= end /\ state.plan_text = OldPlan
            /\ pc # "plan_text" =>
                /\ pc = "edit"
                /\ outcome.pos = (IF end > Len(A) THEN Len(A) ELSE end) + 1
                /\ outcome.result = IF text = << >> THEN << >> ELSE <<text>>
                /\ state.plan_text = IF text = << >> THEN OldPlan ELSE text
                /\ text # << >> => ~IsSpace(text[1]) /\ ~IsSpace(text[Len(text)])
                /\ \A k \in 2..(end - 2) :
                      (/\ A[k] = << >>
                       /\ Strip(A[k - 1]) # << >>
                       /\ Strip(A[k + 1]) # << >>)
                        => Contains(state.plan_text,
                                A[k - 1] \o <<NL, NL>> \o A[k + 1])

\* a plan of two lines with an empty line between them, ended by two empty
\* lines
C26_Witness ==
    /\ pc = "edit"
    /\ call.prompt = "plan_text"
    /\ call.answers = <<<<X>>, << >>, <<X>>, << >>, << >>>>
    /\ outcome.pos = 6
    /\ state.plan_text = <<X, NL, NL, X>>

\* C27: when prompt_agent_type returns an agent other than the current one
\* and that agent's CLI does not answer its probe (claude and opencode
\* alike), the prompt has printed the warning for that agent and the answer
\* to "Continue? [y/N]" was y; without that answer the prompt asks again.
C27_SelectionValidatesAgent ==
    (/\ call.prompt = "agent"
     /\ outcome.returned
     /\ outcome.result # << >>
     /\ outcome.result[1] # original.agent_type) =>
        LET agent == outcome.result[1]
            check == check_agent_available(agent, call.probes[agent])
        IN  /\ state.agent_type = agent
            /\ ~check.available =>
                /\ outcome.printed # << >>
                /\ outcome.printed[Len(outcome.printed)] = "Warning: " \o check.error
                /\ Lower(call.answers[outcome.pos - 1]) = "y"

\* the explanation prompt_plan_file_path owes for an entered path
FileExplanation(kind) ==
    IF kind \in {"missing", "nohome", "toolong"} THEN "File does not exist: p"
    ELSE IF kind = "dir" THEN "Not a file: p"
    ELSE IF kind = "unreadable" THEN "Error reading file: e"
    ELSE IF kind = "blank" THEN "File is empty - keeping original plan."
    ELSE IF kind = "" THEN "Cancelled - keeping original plan."
    ELSE "Loaded plan from: p"

\* C28: prompt_plan_file_path answers every entered path with its
\* explanation; after a path that does not exist, is not a regular file or
\* cannot be read it asks again, so the only exception that ends it is the
\* end of input; it changes the plan only by returning the content of a
\* file it read, and returns without a change only for an empty entry or an
\* empty file.
C28_FilePromptAsksAgain ==
    call.prompt = "plan_file" =>
        LET A == call.answers
            read == outcome.pos - 1
        IN  /\ Len(outcome.printed) = read
            /\ \A k \in 1..read : outcome.printed[k] = FileExplanation(A[k])
            /\ \A k \in 1..read :
                  A[k] \in {"missing", "nohome", "toolong", "dir", "unreadable"}
                    => /\ ~outcome.returned \/ k < read
                       /\ pc = "aborted" => read = Len(A)
            /\ state.plan_text # OldPlan =>
                  /\ outcome.returned
                  /\ A[read] = "plan"
                  /\ state.plan_text = FilePlan
            /\ (outcome.returned /\ state.plan_text = OldPlan) =>
                  A[read] \in {"", "blank"}

\* C29: a visit to the edit menu that get_user_decision ends in any way
\* other than 'confirm' (the edit-level cancel, or an interrupt at the edit
\* menu or at one of its prompts) leaves plan_text, total_iterations and
\* agent_type at the values they had when the edit menu was entered.
C29_EditsSpeculativeUntilConfirm ==
    [][(/\ pc \in EditPositions
        /\ pc' \notin EditPositions \cup {"aborted"}
        /\ ~EditConfirm) => Settings(state') = original]_vars

\* C30: run_loop never starts an agent iteration while state.cancelled is
\* true, whatever LoopState it was handed (cancelled already set, prompting
\* on or off); and inside run_loop state.cancelled changes only from false to
\* true, by the cancel choice of the main menu or an interrupt in the
\* sub-loop.
C30_NoIterationWhileCancelled ==
    /\ [][BoundedIterationStep => ~state.cancelled]_vars
    /\ [][(pc # "start" /\ state'.cancelled # state.cancelled) =>
            /\ state'.cancelled
            /\ MainMenuCancel \/ SubLoopInterrupt]_vars

\* the iterations a LoopState has left to run
Remaining(st) == st.total_iterations - st.current_iteration

\* the entry a step of a loop adds to the trace for its invocation
NewInvocation == trace'[Len(trace) + 1]

\* C31: a confirmed edit takes effect on the very next iteration.  'Confirm'
\* returns to run_loop with the LoopState exactly as the edits left it; every
\* invocation is made with the plan_text and agent_type the LoopState holds
\* when the iteration starts (after the sub-loop returned), needs an
\* iteration left to run and uses one up; so a confirmed remaining count R
\* allows at most R further invocations, and with none left the loop ends
\* EXHAUSTED without another invocation.
C31_ConfirmedEditTakesEffect ==
    /\ [][(pc = "edit" /\ pc' = "loop") => state' = state]_vars
    /\ [][BoundedIterationStep =>
            /\ Remaining(state) > 0
            /\ Remaining(state') = Remaining(state) - 1
            /\ NewInvocation.ev = "iteration"
            /\ NewInvocation.i = state.current_iteration + 1
            /\ NewInvocation.plan_text = state.plan_text
            /\ NewInvocation.agent_type = state.agent_type
            /\ outcome' \in {run_agent_iteration(state.agent_type, env) :
                                env \in LoopEnvs}]_vars
    /\ [][(pc = "loop" /\ Remaining(state) <= 0) =>
            /\ pc' = "done"
            /\ ending' = "EXHAUSTED"
            /\ ret'.status = IMPROVED
            /\ trace' = trace]_vars
    /\ []((pc = "loop" /\ Remaining(state) <= 0) => ~ENABLED RunLoopIteration)

\* a run of three iterations whose user, after iteration 1, entered a new plan
\* and the remaining count 1 and confirmed: iteration 2 ran with the new plan
\* and was the last
C31_Witness ==
    /\ ending = "EXHAUSTED"
    /\ Len(trace) = 3
    /\ trace[1].total = 3
    /\ trace[1].plan_text = CliPlan
    /\ trace[3].ev = "iteration"
    /\ trace[3].plan_text = EditedPlan
    /\ trace[3].total = 2
    /\ ret.iterations_run = 2

\* the fields of a LoopState that steer the loops
ControlFields(st) ==
    [plan_text |-> st.plan_text, total_iterations |-> st.total_iterations,
     agent_type |-> st.agent_type, skip_prompts |-> st.skip_prompts,
     cancelled |-> st.cancelled]

\* what a step of a controller may make of the LoopState st: the counter
\* advanced by one or not, a usage record added to the tracker or not
ControllerEffects(st) ==
    LET counters == {st.current_iteration, st.current_iteration + 1}
        trackers == {st.token_tracker}
                    \cup {add_usage(st.token_tracker, u) : u \in Usages}
    IN  {[st EXCEPT !.current_iteration = c, !.token_tracker = t] :
            c \in counters, t \in trackers}

\* C32: once the LoopState is built, its plan_text, total_iterations,
\* agent_type, skip_prompts and cancelled change only in steps of the
\* interactive sub-loop; a step of run_loop or run_endless_loop changes at
\* most current_iteration and token_tracker.  In the sub-loop 'continue'
\* changes no field, 'skip' sets skip_prompts and nothing else, 'cancel' sets
\* cancelled and nothing else, and no step taken at the main menu does more.
C32_ControlFieldsChangeOnlyInSubLoop ==
    /\ [][(pc # "start" /\ ControlFields(state') # ControlFields(state))
            => pc \in SubLoopPositions]_vars
    /\ [][(pc = "loop" \/ pc = "eloop") =>
            state' \in ControllerEffects(state)]_vars
    /\ [][MainMenuContinue => state' = state]_vars
    /\ [][MainMenuSkip => state' = [state EXCEPT !.skip_prompts = TRUE]]_vars
    /\ [][MainMenuCancel => state' = [state EXCEPT !.cancelled = TRUE]]_vars
    /\ [][pc = "menu" =>
            state' \in {state, [state EXCEPT !.skip_prompts = TRUE],
                        [state EXCEPT !.cancelled = TRUE]}]_vars

\* the user chose 'skip' after iteration 1 and iteration 2 has run, with a
\* usage record tracked: only skip_prompts, current_iteration and the tracker
\* differ from the LoopState the command built
C32_Witness ==
    /\ state.skip_prompts
    /\ ~state.cancelled
    /\ state.current_iteration = 2
    /\ state.token_tracker # NewTracker
    /\ Len(trace) = 3
    /\ ControlFields(state) =
         [ControlFields(LoopState(trace[1].plan_text, trace[1].total,
                                  call.agent_type))
            EXCEPT !.skip_prompts = TRUE]

\* the step runs an agent iteration of either loop and the call returned
IterationReturned ==
    /\ pc \in {"loop", "eloop"}
    /\ Len(trace') = Len(trace) + 1 \/ Len(trace') = Len(trace) + 2
    /\ outcome'.kind = "return"

\* s is t or t with one record appended
AppendsAtMostOne(t, s) ==
    \/ s = t
    \/ /\ Len(s.usages) = Len(t.usages) + 1
       /\ SubSeq(s.usages, 1, Len(t.usages)) = t.usages
       /\ s = add_usage(t, s.usages[Len(s.usages)])

\* C33: the token tracker is append-only across a run.  An iteration whose
\* call returned appends its token usage exactly when the result carries one,
\* which only results of a zero exit code do (COMPLETED, IMPROVED,
\* MISSING_MARKER; never TIMEOUT or PROCESS_ERROR), and the record is in the
\* tracker in the state the iteration's decision leaves, also when that
\* decision ends the loop; no other step of a started loop touches the
\* tracker; iteration_count = len(usages) <= current_iteration always.
C33_TrackerAppendOnly ==
    /\ [](/\ state.token_tracker.iteration_count = Len(state.token_tracker.usages)
          /\ Len(state.token_tracker.usages) <= state.current_iteration)
    /\ [][pc # "start" =>
            AppendsAtMostOne(state.token_tracker, state'.token_tracker)]_vars
    /\ [][IterationReturned =>
            LET result == outcome'.result
            IN  /\ state'.token_tracker =
                     IF result.token_usage # NoTokenUsage
                     THEN add_usage(state.token_tracker, result.token_usage)
                     ELSE state.token_tracker
                /\ result.token_usage # NoTokenUsage =>
                     /\ result.status \in {COMPLETED, IMPROVED, MISSING_MARKER}
                     /\ result.return_code = 0
                /\ result.status \in {TIMEOUT, PROCESS_ERROR} =>
                     result.token_usage = NoTokenUsage]_vars
    /\ [][(pc # "start" /\ ~IterationReturned) =>
            state'.token_tracker = state.token_tracker]_vars

\* a bounded run stopped by a third iteration without a marker whose result
\* carried token usage: the record is in the tracker of the final state, next
\* to the one of an earlier iteration, while one iteration carried none
C33_Witness ==
    /\ pc = "done"
    /\ ending = "STOPPED_ERROR"
    /\ outcome.result.status = MISSING_MARKER
    /\ outcome.result.token_usage # NoTokenUsage
    /\ state.current_iteration = 3
    /\ Len(state.token_tracker.usages) = 2
    /\ state.token_tracker.usages[2] = outcome.result.token_usage

\* the line is a step_finish event
IsStepFinish(doc) ==
    /\ doc.json # DecodeError
    /\ IsDict(doc.json)
    /\ Get(doc.json, "type", JNull) = EventStepFinish

\* the positions of the step_finish events of an OpenCode output
StepFinishes(raw) == {k \in 1..Len(raw) : IsStepFinish(raw[k])}

\* the token usage parse_output takes from the line alone
UsageOfLine(doc) == oc_loop(<<doc>>).token_usage

\* the iteration of an OpenCode output is over and its parse raised nothing
StreamParsed ==
    /\ pc \in {"returned", "tracked", "aborted"}
    /\ call.agent_type = "opencode"
    /\ outcome.kind = "return"
    /\ outcome.result.status # PROCESS_ERROR

\* C34 as stated: the token usage of an OpenCode iteration is what the first
\* step_finish event of the output carries, whatever its token values are
\* (none when they are zero or missing); every later step_finish event is
\* ignored.
C34_FirstStepFinishWins ==
    (StreamParsed /\ StepFinishes(call.raw) # {}) =>
        LET first == CHOOSE k \in StepFinishes(call.raw) :
                        \A j \in StepFinishes(call.raw) : k <= j
        IN  outcome.result.token_usage = UsageOfLine(call.raw[first])

\* what a line of an OpenCode output adds to the transcript: the part.text of
\* a text event, the line and a line break for a line that is no JSON
\* document (nothing for a blank one), nothing for any other event
Fragment(doc) ==
    IF doc.json = DecodeError
    THEN IF AllSpace(doc.text) THEN << >> ELSE doc.text \o <<NL>>
    ELSE IF /\ IsDict(doc.json)
            /\ Get(doc.json, "type", JNull) = EventText
            /\ IsDict(Get(doc.json, "part", JObj(<< >>)))
            /\ IsStr(Get(Get(doc.json, "part", JObj(<< >>)), "text", JStr(<< >>)))
    THEN Get(Get(doc.json, "part", JObj(<< >>)), "text", JStr(<< >>)).text
    ELSE << >>

\* the fragments of the lines in document order, one after the other
RECURSIVE Fragments(_)
Fragments(raw) ==
    IF raw = << >> THEN << >> ELSE Fragment(Head(raw)) \o Fragments(Tail(raw))

\* the status a zero-exit iteration derives from the markers of transcript t
MarkerStatus(t) ==
    IF HasSpan(t, OpenCompleted, CloseCompleted) THEN COMPLETED
    ELSE IF HasSpan(t, OpenImproved, CloseImproved) THEN IMPROVED
    ELSE MISSING_MARKER

\* C35: the transcript the OpenCode adapter searches is the concatenation, in
\* document order, of the part.text fragments of the text events and of the
\* lines that are no JSON (each at its position), and the whole raw output
\* only when that concatenation is empty; the status of the iteration follows
\* the markers of this transcript, so a <Completed> span opened in one text
\* event and closed in a later one (or in a plain line) is found, with the
\* text between the tags as the message.
C35_TranscriptConcatenatesFragments ==
    StreamParsed =>
        LET t == IF Fragments(call.raw) = << >> THEN RawText(call.raw)
                 ELSE Fragments(call.raw)
        IN  /\ opencode_text_content(call.raw) = t
            /\ outcome.result.status = MarkerStatus(t)
            /\ outcome.result.status = COMPLETED =>
                 outcome.result.output_message =
                    AsString(Trimmed(FirstSpanInner(t, OpenCompleted,
                                                    CloseCompleted)))

\* the opening tag came in one text event, a step_finish event followed, and
\* the closing tag came in the next text event: the iteration is COMPLETED
C35_Witness ==
    /\ pc = "returned"
    /\ call.agent_type = "opencode"
    /\ Len(call.raw) = 3
    /\ call.raw[1] = JsonDoc(TextEvent(JStr(<<OpenCompleted, X>>)))
    /\ IsStepFinish(call.raw[2])
    /\ call.raw[3] = JsonDoc(TextEvent(JStr(<<CloseCompleted>>)))
    /\ outcome.result.status = COMPLETED
    /\ outcome.result.output_message = "x"

\* C36 as stated: an optional field of the agent's output that is absent or
\* wrong-shaped (a usage or tokens value that is no object, a cache that is
\* no object, a count that is no integer, a part.text that is no string) is
\* treated as absent: the status of the zero-exit iteration is the one its
\* markers give, and neither the executor nor the loop's token accumulation
\* ends in an exception.
C36_WrongShapeIsAbsent ==
    /\ pc # "aborted"
    /\ pc \in {"returned", "tracked"} =>
        /\ outcome.kind = "return"
        /\ outcome.result.status =
             IF call.agent_type = "claude"
             THEN MarkerStatus(Get(call.raw.json, "result", JStr(<< >>)).text)
             ELSE MarkerStatus(IF Fragments(call.raw) = << >>
                               THEN RawText(call.raw)
                               ELSE Fragments(call.raw))

\* run_loop is at its while test and will not prompt again: prompting is
\* disabled or unavailable, or the user chose 'skip'
NoMorePrompts ==
    /\ pc = "loop"
    /\ ~can_prompt \/ state.skip_prompts

\* total_iterations of the LoopState the command built, as the first
\* invocation recorded it
InitialTotal == trace[1].total

\* C37: once the bounded loop will not prompt (prompting disabled,
\* unavailable or skipped) it terminates: it never prompts again, its
\* total_iterations stays as it is, and it ends after at most that many
\* invocations in all.  The invocations of a run never outnumber
\* total_iterations, and they outnumber the initial total_iterations only
\* after the user raised the count in the edit menu (the only place where
\* total_iterations grows).
C37_BoundedLoopTerminates ==
    /\ NoMorePrompts ~> (pc \in {"done", "aborted"})
    /\ [][NoMorePrompts =>
            /\ pc' \in {"loop", "done", "aborted"}
            /\ state'.total_iterations = state.total_iterations
            /\ state'.skip_prompts = state.skip_prompts]_vars
    /\ [](Cardinality(Invocations) <= state.total_iterations)
    /\ []((Invocations # {} /\ Cardinality(Invocations) > InitialTotal) =>
            /\ can_prompt
            /\ state.total_iterations > InitialTotal)
    /\ [][(pc # "start" /\ state'.total_iterations > state.total_iterations)
            => pc \in EditPositions]_vars

\* a run without a terminal that used up its three iterations and ended
C37_Witness ==
    /\ ~can_prompt
    /\ pc = "done"
    /\ ending = "EXHAUSTED"
    /\ Cardinality(Invocations) = 3
    /\ InitialTotal = 3

\* C38: run_endless_loop never returns COMPLETED or MISSING_MARKER: the
\* status it returns is TIMEOUT or PROCESS_ERROR (that of the last
\* iteration) exactly on the threshold exit and IMPROVED on the cap exit and
\* on the interrupt exit, and run_endlessly exits with code 1 on the
\* threshold exit and on a rejected command line, with 2 otherwise, never 0.
C38_EndlessNeverSucceeds ==
    /\ (InEndlessLoop /\ pc = "done") =>
        /\ ending \in {"CAP", "THRESHOLD", "INTERRUPT"}
        /\ ret.status \notin {COMPLETED, MISSING_MARKER}
        /\ (ret.status \in ErrorStatuses) <=> (ending = "THRESHOLD")
        /\ (ending \in {"CAP", "INTERRUPT"}) => ret.status = IMPROVED
        /\ (ending = "THRESHOLD") => ret.status = Statuses[Len(Statuses)]
        /\ via_cli =>
            /\ exit_code \in {1, 2}
            /\ (exit_code = 1) <=> (ending = "THRESHOLD")
    /\ (via_cli /\ pc = "done") => exit_code \in {1, 2}

\* the command ends by the cap after three COMPLETED iterations, exit code 2
C38_Witness ==
    /\ via_cli
    /\ ending = "CAP"
    /\ Statuses = <<COMPLETED, COMPLETED, COMPLETED>>
    /\ ret.status = IMPROVED
    /\ exit_code = 2

\* C39: on every exit of run_endless_loop the returned iterations_run equals
\* the number of agent invocations begun; on the threshold and interrupt
\* exits it also equals state.current_iteration, and on the cap exit
\* state.current_iteration is max_iterations + 1 while max_iterations is
\* returned.
C39_CountIsInvocationsBegun ==
    (InEndlessLoop /\ pc = "done") =>
        /\ ret.iterations_run = Cardinality(Invocations)
        /\ (ending \in {"THRESHOLD", "INTERRUPT"}) =>
                ret.iterations_run = state.current_iteration
        /\ (ending = "CAP") =>
            /\ state.current_iteration = max_iterations[1] + 1
            /\ ret.iterations_run = max_iterations[1]

\* the command line of the invocation recorded in trace entry e
CommandOf(e) == build_command(e.agent_type, e.plan_text, e.model).cmd

\* C40: the model override handed to each iteration is fixed when the run
\* starts and is the same for every iteration: it is the value the command
\* resolved from its options and its initial agent, no step after the start
\* changes it, and an agent change in the edit menu leaves it as it is.  After
\* a switch from claude to opencode without --model no model is passed (the
\* opencode default is not applied); after a switch from opencode to claude
\* the default 'opencode/glm-4.7-free' resolved at startup is passed to the
\* claude command line.
C40_ModelFixedAtStart ==
    /\ [][pc # "start" => model' = model]_vars
    /\ [](\A k \in Invocations :
            /\ trace[k].model = DefaultModel(call.agent_type, call.model_opt)
            /\ trace[k].model = model
            /\ (call.agent_type = "claude" /\ call.model_opt = None) =>
                /\ trace[k].model = None
                /\ \A n \in 1..Len(CommandOf(trace[k])) :
                        CommandOf(trace[k])[n] # "--model"
            /\ (call.agent_type = "opencode" /\ call.model_opt = None
                    /\ trace[k].agent_type = "claude") =>
                CommandOf(trace[k]) =
                    <<"claude", "-p", "--dangerously-skip-permissions",
                      "--output-format", "json",
                      "--model", "opencode/glm-4.7-free">>)

\* a run started with opencode and no --model whose user switched to claude:
\* a later iteration invoked claude with the opencode default model
C40_Witness ==
    /\ call.agent_type = "opencode"
    /\ call.model_opt = None
    /\ \E j \in Invocations, k \in Invocations :
        /\ j < k
        /\ trace[j].agent_type = "opencode"
        /\ trace[k].agent_type = "claude"
        /\ trace[k].model = "opencode/glm-4.7-free"

====
